---- MODULE Spec2Model ----
(***************************************************************************)
(* Model of hotfix/convert-rtconfig.py: the rtconfig.py migration tool.    *)
(*                                                                         *)
(* Text is modelled character by character: a Python str is a sequence of  *)
(* one-character strings, so that substring tests, str.replace, str.strip  *)
(* and the regular expressions of the analyzer are computed as the code    *)
(* computes them.  An optional value (None or a str) is a record           *)
(* [some, val]; a dict is a function from its keys.                        *)
(***************************************************************************)
EXTENDS Integers, Sequences, FiniteSets, TLC

VARIABLES
    pc,                 \* position of the run (main / analyze / generate)
    steps,              \* the analyzer and generator methods called so far, in call order
    source,             \* syntactic structure of the file being migrated (what ast.parse sees)
    bsp_files,          \* the conventional linker-script paths that exist next to the file
    content,            \* RTConfigAnalyzer.content
    parsed_successfully,\* RTConfigAnalyzer.parsed_successfully
    dist_handle_code,   \* RTConfigAnalyzer.dist_handle_code
    link_script_path,   \* RTConfigAnalyzer.link_script_path
    all_defines,        \* RTConfigAnalyzer.all_defines
    all_includes,       \* RTConfigAnalyzer.all_includes
    result,             \* the dict built by analyze()
    raised,             \* the exception that left analyze(), or "none"
    new_content,        \* the text returned by generate()
    re_defines,         \* defines recovered by analysing new_content again
    re_includes,        \* includes recovered by analysing new_content again
    cfg,                \* a run of the generated configuration: its variables and exit status
    force,              \* main: -f / --force given
    input_file,         \* main: the path given on the command line
    file_stamp,         \* main: generate_timestamp() of the run
    fs,                 \* main: the files of the run (input, logs dir, backup, report)
    original0,          \* main: content of the input file when the run started
    exit_code,          \* main: sys.exit status, or "running"
    cls_input,          \* classifier: the flag value the operation was applied to
    cls_value,          \* classifier: the flag value under test
    cls_match,          \* classifier: the keyword recorded for cls_value
    cls_op              \* classifier: how cls_value was obtained

vars == <<pc, steps, source, bsp_files, content, parsed_successfully, dist_handle_code,
          link_script_path, all_defines, all_includes, result, raised,
          new_content, re_defines, re_includes, cfg, force, input_file, file_stamp, fs,
          original0, exit_code, cls_input, cls_value, cls_match, cls_op>>

analyzerVars == <<content, parsed_successfully, dist_handle_code, link_script_path,
                  all_defines, all_includes, result, raised>>
outputVars == <<new_content, re_defines, re_includes, cfg>>
mainVars == <<force, input_file, file_stamp, fs, original0, exit_code>>
classifierVars == <<cls_input, cls_value, cls_match, cls_op>>

----------------------------------------------------------------------------
(* Python values *)

None == [some |-> FALSE, val |-> <<>>]
Some(v) == [some |-> TRUE, val |-> v]

\* str(x) as an f-string renders it: str(None) is the text None
Format(x) == IF x.some THEN x.val ELSE <<"N","o","n","e">>

\* truthiness of an optional str: None and '' are false
Truthy(x) == x.some /\ x.val # <<>>

\* dict.get(key, default): the default is used only when the key is absent
DictGet(d, key, default) == IF key \in DOMAIN d THEN d[key] ELSE default

Min(S) == CHOOSE x \in S : \A y \in S : x <= y
Max(S) == CHOOSE x \in S : \A y \in S : x >= y
MinOr(S, none) == IF S = {} THEN none ELSE Min(S)
MaxOr(S, none) == IF S = {} THEN none ELSE Max(S)

----------------------------------------------------------------------------
(* Python str operations *)

\* s[i:i+len(p)] == p, positions counted from 1
StartsAt(s, i, p) ==
    /\ i >= 1
    /\ i + Len(p) - 1 <= Len(s)
    /\ \A k \in 1..Len(p) : s[i + k - 1] = p[k]

\* p in s
Contains(s, p) == \E i \in 1..(Len(s) - Len(p) + 1) : StartsAt(s, i, p)

\* s.find(p, from): first position >= from where p occurs, 0 when there is none
Find(s, p, from) ==
    MinOr({i \in from..(Len(s) - Len(p) + 1) : StartsAt(s, i, p)}, 0)

\* s.rfind(c, 0, before): last position < before holding character c, 0 when none
RFindChar(s, c, before) ==
    MaxOr({i \in 1..(before - 1) : s[i] = c}, 0)

\* s.replace(old, ''): occurrences are removed left to right, in one pass
RECURSIVE StrRemove(_, _)
StrRemove(s, old) ==
    LET Cut(i) == IF i = 0 \/ old = <<>>
                  THEN s
                  ELSE SubSeq(s, 1, i - 1) \o StrRemove(SubSeq(s, i + Len(old), Len(s)), old)
    IN  Cut(Find(s, old, 1))

\* s.replace(a, b) for single characters
ReplaceChar(s, a, b) == [i \in 1..Len(s) |-> IF s[i] = a THEN b ELSE s[i]]

\* s.strip(chars)
Strip(s, chars) ==
    LET Trim(keep) == IF keep = {} THEN <<>> ELSE SubSeq(s, Min(keep), Max(keep))
    IN  Trim({i \in 1..Len(s) : s[i] \notin chars})

\* s.startswith(p)
StartsWith(s, p) == StartsAt(s, 1, p)

\* '\n'.join(lines), computed by halves
RECURSIVE JoinRange(_, _, _)
JoinRange(lines, lo, hi) ==
    IF lo > hi THEN <<>>
    ELSE IF lo = hi THEN lines[lo]
    ELSE LET mid == (lo + hi) \div 2
         IN  JoinRange(lines, lo, mid) \o <<"\n">> \o JoinRange(lines, mid + 1, hi)
Join(lines) == JoinRange(lines, 1, Len(lines))

----------------------------------------------------------------------------
(* Characters.  The alphabet is ASCII plus the CJK characters the generator's
   template uses; CharOrder lists it by code point, as sorted() compares. *)

UpperSeq == <<"A","B","C","D","E","F","G","H","I","J","K","L","M","N","O","P","Q","R","S","T","U","V","W","X","Y","Z">>
LowerSeq == <<"a","b","c","d","e","f","g","h","i","j","k","l","m","n","o","p","q","r","s","t","u","v","w","x","y","z">>
DigitSeq == <<"0","1","2","3","4","5","6","7","8","9">>
CJKSeq == <<"u4e0b","u4e0d","u4e2d","u4e49","u4ece","u4ed6","u4ee4","u4ef6","u4f18","u4f1a","u4f46","u4f5c","u4f7f","u4fdd","u4fee","u514d","u5165","u5176","u5177","u5185","u51fd","u5207","u5230","u524d","u52a0","u52a8","u5305","u5316","u539f","u53c2","u53d1","u53d6","u53d8","u53ea","u53ef","u53f0","u540e","u542b","u544a","u547d","u548c","u5668","u5728","u578b","u57fa","u5883","u5904","u5907","u590d","u5934","u59cb","u5b58","u5b9a","u5bb9","u5bfc","u5c1d","u5de5","u5df2","u5e03","u5e73","u5e93","u5efa","u5f53","u5f84","u5fd7","u6210","u6233","u6240","u6267","u62e9","u6301","u6362","u636e","u6389","u63a2","u63a5","u63d0","u64cd","u652f","u6548","u6570","u6587","u65b0","u65f6","u662f","u6709","u672c","u6784","u6807","u6839","u6cd5","u6ce8","u6d4b","u6dfb","u6ee4","u73af","u7406","u751f","u7528","u7559","u7684","u76d6","u77e5","u786e","u79fb","u7c7b","u7ed3","u7f16","u7f6e","u811a","u81ea","u83b7","u884c","u88ab","u8986","u8b66","u8ba4","u8bbe","u8bd1","u8bd5","u8bed","u8bef","u8bf7","u8def","u8fc1","u8fc7","u9002","u9009","u901a","u907f","u90e8","u914d","u91ca","u91cf","u94fe","u9519","u95f4","u9879","u9ed8">>
CJKPunct == <<"uff08","uff09","uff0c">>
CharOrder == <<"\t","\n">> \o <<"\r">> \o <<" ","!","\"","#","$","%","&","'","(",")","*","+",",","-",".","/","0","1","2","3","4","5","6","7","8","9",":",";","<","=",">","?","@","A","B","C","D","E","F","G","H","I","J","K","L","M","N","O","P","Q","R","S","T","U","V","W","X","Y","Z","[","\\","]","^","_","u0060","a","b","c","d","e","f","g","h","i","j","k","l","m","n","o","p","q","r","s","t","u","v","w","x","y","z","{","|","}","~">> \o CJKSeq \o CJKPunct

Range(s) == {s[i] : i \in 1..Len(s)}

\* \s of the re module
Whitespace == {" ", "\t", "\n", "\r"}
\* \w of the re module on str patterns: letters, digits, underscore
WordChars == Range(UpperSeq) \cup Range(LowerSeq) \cup Range(DigitSeq) \cup {"_"} \cup Range(CJKSeq)
IsSpace(c) == c \in Whitespace
IsWord(c) == c \in WordChars

\* c.lower(), and the case folding of re.IGNORECASE
LowerOf(c) ==
    IF c \in Range(UpperSeq)
    THEN LowerSeq[CHOOSE i \in 1..Len(UpperSeq) : UpperSeq[i] = c]
    ELSE c
LowerStr(s) == [i \in 1..Len(s) |-> LowerOf(s[i])]

\* s[i:i+len(p)] == p up to letter case (re.IGNORECASE)
StartsAtNoCase(s, i, p) ==
    /\ i >= 1
    /\ i + Len(p) - 1 <= Len(s)
    /\ \A k \in 1..Len(p) : LowerOf(s[i + k - 1]) = LowerOf(p[k])

\* the end of the longest run of characters of class cls that starts at i
\* (i - 1 when s[i] is not in cls): where a greedy cls* stops
RunEnd(s, i, cls) ==
    MinOr({j \in i..Len(s) : s[j] \notin cls}, Len(s) + 1) - 1
SkipSpace(s, i) == RunEnd(s, i, Whitespace) + 1

\* sorted(set of str): ascending by code point, a proper prefix first
CodePoint(c) == CHOOSE n \in 1..Len(CharOrder) : CharOrder[n] = c
RECURSIVE StrLess(_, _)
StrLess(a, b) ==
    IF a = <<>> THEN b # <<>>
    ELSE IF b = <<>> THEN FALSE
    ELSE IF a[1] # b[1] THEN CodePoint(a[1]) < CodePoint(b[1])
    ELSE StrLess(Tail(a), Tail(b))
\* the elements of S from the greatest down: sorted(S, reverse=True)
RECURSIVE SortedDescending(_)
SortedDescending(S) ==
    IF S = {} THEN <<>>
    ELSE LET Rest(m) == <<m>> \o SortedDescending(S \ {m})
         IN  Rest(CHOOSE x \in S : \A y \in S \ {x} : StrLess(y, x))
RECURSIVE Sorted(_)
Sorted(S) ==
    IF S = {} THEN <<>>
    ELSE LET Rest(m) == <<m>> \o Sorted(S \ {m})
         IN  Rest(CHOOSE x \in S : \A y \in S \ {x} : StrLess(x, y))

----------------------------------------------------------------------------
(* The fixed tables of RTConfigAnalyzer.__init__ and RTConfigGenerator *)

\* self.unsupported_gcc_keywords, in list order
unsupported_gcc_keywords == <<
    <<"-","-","a","p","c","s","=","i","n","t","e","r","w","o","r","k">>,
    <<"-","D","_","_","M","I","C","R","O","L","I","B">>,
    <<"-","-","p","d"," ","\"","_","_","M","I","C","R","O","L","I","B"," ","S","E","T","A"," ","1","\"">>,
    <<"-","-","l","i","b","r","a","r","y","_","t","y","p","e","=","m","i","c","r","o","l","i","b">>,
    <<"-","-","c","p","u"," ","C","o","r","t","e","x","-","M","4",".","f","p">>,
    <<"-","-","d","i","a","g","_","s","u","p","p","r","e","s","s"," ","P","a","0","5","0">>,
    <<"-","D","e","w","a","r","m">>,
    <<"-","-","n","o","_","c","s","e">>,
    <<"-","-","n","o","_","u","n","r","o","l","l">>,
    <<"-","-","n","o","_","i","n","l","i","n","e">>,
    <<"-","-","n","o","_","c","o","d","e","_","m","o","t","i","o","n">>,
    <<"-","-","n","o","_","t","b","a","a">>,
    <<"-","-","n","o","_","c","l","u","s","t","e","r","i","n","g">>,
    <<"-","-","n","o","_","s","c","h","e","d","u","l","i","n","g">>,
    <<"-","-","t","a","r","g","e","t","=","a","r","m","-","a","r","m","-","n","o","n","e","-","e","a","b","i">>,
    <<"-","-","l","i","s","t"," ","r","t","-","t","h","r","e","a","d",".","m","a","p">>,
    <<"-","-","s","t","r","i","c","t">> >>

\* common_paths of _extract_link_script, in probe order
common_paths == <<
    <<"b","o","a","r","d","/","l","i","n","k","e","r","_","s","c","r","i","p","t","s","/","l","i","n","k",".","l","d","s">>,
    <<"l","i","n","k","e","r","_","s","c","r","i","p","t","s","/","l","i","n","k",".","l","d","s">>,
    <<"s","c","r","i","p","t","s","/","l","i","n","k",".","l","d","s">>,
    <<"l","i","n","k",".","l","d","s">>,
    <<"l","i","n","k","e","r",".","l","d">> >>

\* an fpu_map whose cortex-m7 row holds the single-precision unit (a faulty
\* variant of _determine_fpu, for comparison)
FpuMapM7Single(cpu) ==
    IF cpu \in {<<"c","o","r","t","e","x","-","m","4">>, <<"c","o","r","t","e","x","-","m","7">>} THEN <<"f","p","v","4","-","s","p","-","d","1","6">>
    ELSE IF cpu = <<"c","o","r","t","e","x","-","m","3","3">> THEN <<"f","p","v","5","-","s","p","-","d","1","6">>
    ELSE <<>>

\* fpu_map.get(cpu, '') of _determine_fpu
_determine_fpu(cpu) ==
    IF cpu = <<"c","o","r","t","e","x","-","m","4">> THEN <<"f","p","v","4","-","s","p","-","d","1","6">>
    ELSE IF cpu = <<"c","o","r","t","e","x","-","m","7">> THEN <<"f","p","v","5","-","d","1","6">>
    ELSE IF cpu = <<"c","o","r","t","e","x","-","m","3","3">> THEN <<"f","p","v","5","-","s","p","-","d","1","6">>
    ELSE <<>>

----------------------------------------------------------------------------
(* The source file.  A file is a sequence of top-level statements; each
   statement has the syntax ast.parse gives it and the text it is written
   as.  ast.parse(content) fails with SyntaxError exactly when a statement
   of the file is not Python (kind "Broken"). *)

\* right-hand sides
StrLit(q, v)    == [k |-> "Str", q |-> q, val |-> v]          \* 'v' or "v"
RawLit(v)       == [k |-> "Raw", q |-> "'", val |-> v]        \* r'v'
NameExpr(src)   == [k |-> "Expr", q |-> "", val |-> src]      \* a name, a call: not a literal
SetOfList(src)  == [k |-> "Unhashable", q |-> "", val |-> src]\* a set or dict display with a list as element or key

\* statements
NoRhs == [k |-> "None", q |-> "", val |-> <<>>]
Assign(name, rhs)    == [k |-> "Assign", name |-> name, rhs |-> rhs, text |-> <<>>]
AugAssign(name, rhs) == [k |-> "AugAssign", name |-> name, rhs |-> rhs, text |-> <<>>]
FunctionDef(name, body) == [k |-> "FunctionDef", name |-> name, rhs |-> NoRhs, text |-> body]
Comment(text)        == [k |-> "Comment", name |-> <<>>, rhs |-> NoRhs, text |-> text]
Broken(text)         == [k |-> "Broken", name |-> <<>>, rhs |-> NoRhs, text |-> text]

RhsText(rhs) ==
    CASE rhs.k = "Str" -> <<rhs.q>> \o rhs.val \o <<rhs.q>>
      [] rhs.k = "Raw" -> <<"r", rhs.q>> \o rhs.val \o <<rhs.q>>
      [] OTHER -> rhs.val

\* the text of one statement, with its line end
Render(st) ==
    CASE st.k = "Assign" -> st.name \o <<" ","="," ">> \o RhsText(st.rhs) \o <<"\n">>
      [] st.k = "AugAssign" -> st.name \o <<" ","+","="," ">> \o RhsText(st.rhs) \o <<"\n">>
      [] st.k = "FunctionDef" -> <<"d","e","f"," ">> \o st.name \o <<"(","B","S","P",")",":","\n">> \o st.text
      [] st.k = "Comment" -> <<"#"," ">> \o st.text \o <<"\n">>
      [] OTHER -> st.text \o <<"\n">>

RECURSIVE RenderAll(_)
RenderAll(sts) == IF sts = <<>> THEN <<>> ELSE Render(Head(sts)) \o RenderAll(Tail(sts))

\* ast.parse(content) raises SyntaxError
ParseFails(sts) == \E i \in 1..Len(sts) : sts[i].k = "Broken"

\* the ast.Assign nodes in ast.walk order (all statements here are top-level)
RECURSIVE WalkAssigns(_)
WalkAssigns(sts) ==
    IF sts = <<>> THEN <<>>
    ELSE IF Head(sts).k = "Assign" THEN <<Head(sts)>> \o WalkAssigns(Tail(sts))
    ELSE WalkAssigns(Tail(sts))

\* ast.literal_eval(node.value): the value, or the exception it raises
literal_eval(rhs) ==
    CASE rhs.k \in {"Str", "Raw"} -> [exc |-> "none", val |-> rhs.val]
      [] rhs.k = "Unhashable" -> [exc |-> "TypeError", val |-> <<>>]
      [] OTHER -> [exc |-> "ValueError", val |-> <<>>]

----------------------------------------------------------------------------
(* RTConfigAnalyzer._extract_dist_handle.  A regular expression is read left
   to right: each local operator takes the position its predecessor reached. *)

\* def\s+dist_handle\s*\(  matched at i: the position after "(", or 0
DefHeadAt(s, i) ==
    LET Paren(c) == IF c <= Len(s) /\ s[c] = "(" THEN c + 1 ELSE 0
        Name(b) == IF b = i + 3 \/ ~StartsAt(s, b, <<"d","i","s","t","_","h","a","n","d","l","e">>) THEN 0
                   ELSE Paren(SkipSpace(s, b + 11))
    IN  IF ~StartsAt(s, i, <<"d","e","f">>) THEN 0 ELSE Name(SkipSpace(s, i + 3))

\* def\s+dist_handle\s*\([^)]*\)\s*:  matched at i: the position after ":", or 0
DefHeaderAt(s, i) ==
    LET Colon(d) == IF d > 0 /\ d <= Len(s) /\ s[d] = ":" THEN d + 1 ELSE 0
        Close(p) == Colon(IF p = 0 THEN 0 ELSE SkipSpace(s, p + 1))
        Open(c) == Close(IF c = 0 THEN 0 ELSE Find(s, <<")">>, c))
    IN  Open(DefHeadAt(s, i))

\* the lookahead (?=\n\s*def\s|\n\s*$|\Z) at position q (DOTALL, not MULTILINE)
HandlerStopsAt(s, q) ==
    LET AtDef(r) == \/ r = Len(s) + 1
                    \/ StartsAt(s, r, <<"d","e","f">>) /\ r + 3 <= Len(s) /\ IsSpace(s[r + 3])
    IN  \/ q = Len(s) + 1
        \/ q <= Len(s) /\ s[q] = "\n" /\ AtDef(SkipSpace(s, q + 1))

\* re.search(pattern, content, re.DOTALL): [start, end] of group(0), or <<0, 0>>
HandlerMatch1(s) ==
    LET From(i) == <<i, Min({x \in DefHeaderAt(s, i)..(Len(s) + 1) : HandlerStopsAt(s, x)}) - 1>>
        First(starts) == IF starts = {} THEN <<0, 0>> ELSE From(Min(starts))
    IN  First({i \in 1..Len(s) : DefHeaderAt(s, i) > 0})

\* pattern2: def\s+dist_handle\s*\(.*?\).*?(?:\n{2,}|\Z)
HandlerMatch2(s) ==
    LET Close(c) == IF c > 0 THEN Find(s, <<")">>, c) ELSE 0
        End(i, nn) == IF nn = 0 THEN <<i, Len(s)>> ELSE <<i, RunEnd(s, nn, {"\n"})>>
        From(i) == End(i, Find(s, <<"\n","\n">>, Close(DefHeadAt(s, i)) + 1))
        First(starts) == IF starts = {} THEN <<0, 0>> ELSE From(Min(starts))
    IN  First({i \in 1..Len(s) : Close(DefHeadAt(s, i)) > 0})

_extract_dist_handle(s) ==
    LET Cut(func_start, group0) ==
            SubSeq(s, RFindChar(s, "\n", func_start) + 1, func_start + Len(group0) - 1)
        Whole(group0) == Cut(Find(s, group0, 1), group0)
        Second(m2) == IF m2[1] > 0 THEN SubSeq(s, m2[1], m2[2]) ELSE <<>>
        First(m) == IF m[1] > 0 THEN Whole(SubSeq(s, m[1], m[2]))
                    ELSE Second(HandlerMatch2(s))
    IN  First(HandlerMatch1(s))

----------------------------------------------------------------------------
(* RTConfigAnalyzer._extract_link_script *)

\* [\w/\.\-_]
LinkChars == WordChars \cup {"/", ".", "-", "_"}
Quotes == {"'", "\""}

\* -T\s+([\w/\.\-_]+\.lds?) matched at i: group(1), or <<>>
LinkFlagAt(s, i) ==
    LET Path(b, d) == SubSeq(s, b, IF d + 3 <= Len(s) /\ s[d + 3] = "s" THEN d + 3 ELSE d + 2)
        Dots(b, dots) == IF b = i + 2 \/ dots = {} THEN <<>> ELSE Path(b, Max(dots))
        Body(b, e) == Dots(b, {d \in (b + 1)..(e - 2) : StartsAt(s, d, <<".","l","d">>)})
        Arg(b) == Body(b, RunEnd(s, b, LinkChars))
    IN  IF ~StartsAt(s, i, <<"-","T">>) THEN <<>> ELSE Arg(SkipSpace(s, i + 2))

\* NAME\s*=\s*['"]([^'"]+)['"] matched at i: group(1), or <<>>
QuotedAssignAt(s, i, name, nocase) ==
    LET Value(b, e) == IF e > b /\ e < Len(s) THEN SubSeq(s, b + 1, e) ELSE <<>>
        Quote(b) == Value(b, IF b > 0 /\ b <= Len(s) /\ s[b] \in Quotes
                             THEN RunEnd(s, b + 1, Range(s) \ Quotes) ELSE 0)
        Equals(a) == Quote(IF a <= Len(s) /\ s[a] = "=" THEN SkipSpace(s, a + 1) ELSE 0)
    IN  IF ~(IF nocase THEN StartsAtNoCase(s, i, name) ELSE StartsAt(s, i, name)) THEN <<>>
        ELSE Equals(SkipSpace(s, i + Len(name)))

\* re.search of NAME\s*=\s*['"]([^'"]+)['"]: group(1) of the leftmost match, or None
SearchQuotedAssign(s, name, nocase) ==
    LET First(starts) == IF starts = {} THEN None
                         ELSE Some(QuotedAssignAt(s, Min(starts), name, nocase))
    IN  First({i \in 1..Len(s) : QuotedAssignAt(s, i, name, nocase) # <<>>})

SearchLinkFlag(s) ==
    LET First(starts) == IF starts = {} THEN None ELSE Some(LinkFlagAt(s, Min(starts)))
    IN  First({i \in 1..Len(s) : LinkFlagAt(s, i) # <<>>})

\* the pattern loop with the link_script variable tried before the -T flag (a faulty
\* variant of LinkScriptFromText, for comparison)
LinkScriptVariableFirst(s) ==
    LET Norm(m) == IF m.some THEN Some(ReplaceChar(m.val, "\\", "/")) ELSE None
        Third(m2) == IF m2.some THEN m2 ELSE SearchQuotedAssign(s, <<"L","I","N","K","_","S","C","R","I","P","T">>, FALSE)
        Second(m1) == IF m1.some THEN m1 ELSE Third(SearchLinkFlag(s))
    IN  Norm(Second(SearchQuotedAssign(s, <<"l","i","n","k","_","s","c","r","i","p","t">>, FALSE)))

\* the for loop over patterns: the first pattern that matches sets the path
LinkScriptFromText(s) ==
    LET Norm(m) == IF m.some THEN Some(ReplaceChar(m.val, "\\", "/")) ELSE None
        Third(m2) == IF m2.some THEN m2 ELSE SearchQuotedAssign(s, <<"L","I","N","K","_","S","C","R","I","P","T">>, FALSE)
        Second(m1) == IF m1.some THEN m1
                      ELSE Third(SearchQuotedAssign(s, <<"l","i","n","k","_","s","c","r","i","p","t">>, FALSE))
    IN  Norm(Second(SearchLinkFlag(s)))

\* the probe of common_paths: existing is the set of paths for which
\* (bsp_dir / path).exists() answers true
LinkScriptFromDisk(existing) ==
    LET First(hits) == IF hits = {} THEN None ELSE Some(common_paths[Min(hits)])
    IN  First({n \in 1..Len(common_paths) : common_paths[n] \in existing})

_extract_link_script(s, existing) ==
    LET Probe(fromText) == IF Truthy(fromText) THEN fromText ELSE LinkScriptFromDisk(existing)
    IN  Probe(LinkScriptFromText(s))

----------------------------------------------------------------------------
(* RTConfigAnalyzer.analyze: the result dict, and the two field extractors *)

EmptyDict == [x \in {} |-> None]
Put(d, key, v) == [x \in DOMAIN d \cup {key} |-> IF x = key THEN v ELSE d[x]]

\* result as analyze() creates it
InitialResult ==
    [arch |-> None, cpu |-> None, cross_tool |-> None, platform |-> None,
     exec_path |-> None, build |-> Some(<<"d","e","b","u","g">>), gcc_config |-> EmptyDict,
     unsupported_configs |-> <<>>, original_variables |-> EmptyDict,
     dist_handle_found |-> FALSE, linker_script |-> None,
     defines |-> {}, includes |-> {}]

\* the if/elif chain of _extract_from_ast: the field an assigned name sets
AstFieldOf(var_name) ==
    CASE var_name \in {<<"A","R","C","H">>, <<"a","r","c","h">>} -> "arch"
      [] var_name \in {<<"C","P","U">>, <<"c","p","u">>} -> "cpu"
      [] var_name \in {<<"C","R","O","S","S","_","T","O","O","L">>, <<"C","R","O","S","S","_","T","O","O","L">>} -> "cross_tool"
      [] var_name \in {<<"P","L","A","T","F","O","R","M">>, <<"p","l","a","t","f","o","r","m">>} -> "platform"
      [] var_name \in {<<"E","X","E","C","_","P","A","T","H">>, <<"e","x","e","c","_","p","a","t","h">>} -> "exec_path"
      [] var_name \in {<<"B","U","I","L","D">>, <<"b","u","i","l","d">>} -> "build"
      [] OTHER -> "none"

SetField(res, field, value) ==
    IF field = "none" THEN res
    ELSE [x \in DOMAIN res |-> IF x = field THEN Some(value) ELSE res[x]]

\* _extract_from_ast over the Assign nodes: a TypeError of literal_eval is not
\* caught by except (ValueError, SyntaxError) and ends the loop
RECURSIVE AstFold(_, _)
AstFold(nodes, res) ==
    IF nodes = <<>> THEN [exc |-> "none", result |-> res]
    ELSE LET Visit(node, ev) ==
                 CASE ev.exc = "none" ->
                        AstFold(Tail(nodes),
                                SetField([res EXCEPT !.original_variables = Put(@, node.name, Some(ev.val))],
                                         AstFieldOf(node.name), ev.val))
                   [] ev.exc = "ValueError" ->
                        \* ast.unparse(node.value)
                        AstFold(Tail(nodes),
                                [res EXCEPT !.original_variables = Put(@, node.name, Some(node.rhs.val))])
                   [] OTHER -> [exc |-> ev.exc, result |-> res]
         IN  Visit(Head(nodes), literal_eval(Head(nodes).rhs))

_extract_from_ast(tree, res) == AstFold(WalkAssigns(tree), res)

\* EXEC_PATH\s*=\s*(.+?)(?:\n|$) with re.IGNORECASE, matched at i: group(1), or <<>>
ExecPathAt(s, i) ==
    LET Group(gs) == IF gs = {} THEN <<>>
                     ELSE SubSeq(s, Max(gs), RunEnd(s, Max(gs), Range(s) \ {"\n"}))
        Value(a, w) == IF w = 0 THEN <<>>
                       ELSE Group({g \in (a + 1)..w : g <= Len(s) /\ s[g] # "\n"})
        Equals(a) == Value(a, IF a <= Len(s) /\ s[a] = "=" THEN SkipSpace(s, a + 1) ELSE 0)
    IN  IF ~StartsAtNoCase(s, i, <<"E","X","E","C","_","P","A","T","H">>) THEN <<>> ELSE Equals(SkipSpace(s, i + 9))

SearchExecPath(s) ==
    LET First(starts) == IF starts = {} THEN None ELSE Some(ExecPathAt(s, Min(starts)))
    IN  First({i \in 1..Len(s) : ExecPathAt(s, i) # <<>>})

\* patterns of _extract_with_regex, in dict order: name, result key
RegexFields == <<
    <<<<"A","R","C","H">>, "arch">>, <<<<"C","P","U">>, "cpu">>, <<<<"C","R","O","S","S","_","T","O","O","L">>, "cross_tool">>,
    <<<<"P","L","A","T","F","O","R","M">>, "platform">>, <<<<"E","X","E","C","_","P","A","T","H">>, "exec_path">>, <<<<"B","U","I","L","D">>, "build">> >>

RegexSearch(s, name) ==
    IF name = <<"E","X","E","C","_","P","A","T","H">> THEN SearchExecPath(s) ELSE SearchQuotedAssign(s, name, TRUE)

RECURSIVE RegexFold(_, _, _)
RegexFold(s, n, res) ==
    IF n > Len(RegexFields) THEN res
    ELSE LET Store(var_name, value) ==
                 RegexFold(s, n + 1,
                    SetField([res EXCEPT !.original_variables = Put(@, var_name, Some(value))],
                             RegexFields[n][2], value))
             Found(var_name, m) == IF ~m.some THEN RegexFold(s, n + 1, res)
                                   ELSE Store(var_name, Strip(m.val, Quotes))
         IN  Found(RegexFields[n][1], RegexSearch(s, RegexFields[n][1]))

_extract_with_regex(s, res) == RegexFold(s, 1, res)

----------------------------------------------------------------------------
(* RTConfigAnalyzer._analyze_compiler_flags_fixed *)

\* the lookahead (?=\n\s*\w+\s*[=:]|\n\s*$|#) at position q (MULTILINE, DOTALL)
FlagStopsAt(s, q) ==
    LET Sign(r, e, t) == \/ e >= r /\ t <= Len(s) /\ s[t] \in {"=", ":"}
                         \/ r = Len(s) + 1
                         \/ \E n \in (q + 1)..(r - 1) : s[n] = "\n"
        Word(r, e) == Sign(r, e, SkipSpace(s, e + 1))
        Line(r) == Word(r, RunEnd(s, r, WordChars))
    IN  /\ q <= Len(s)
        /\ \/ s[q] = "#"
           \/ s[q] = "\n" /\ Line(SkipSpace(s, q + 1))

\* NAME\s*[+:]?=\s*(.+?)(?=...) matched at i: [first, last] of group(1), or <<0, 0>>
FlagMatchAt(s, i, name) ==
    LET Group(w, stops) ==
            IF w = 0 \/ stops = {} THEN <<0, 0>>
            ELSE IF Max(stops) > w
                 THEN <<w, Min({q \in stops : q > w}) - 1>>
                 ELSE <<Max(stops) - 1, Max(stops) - 1>>
        Equals(a2) == Group(IF a2 <= Len(s) /\ s[a2] = "=" THEN SkipSpace(s, a2 + 1) ELSE 0,
                            {q \in (a2 + 2)..Len(s) : FlagStopsAt(s, q)})
        Sign(a1) == Equals(IF a1 <= Len(s) /\ s[a1] \in {"+", ":"} THEN a1 + 1 ELSE a1)
    IN  IF ~StartsAtNoCase(s, i, name) THEN <<0, 0>> ELSE Sign(SkipSpace(s, i + Len(name)))

\* re.findall: the group(1) of every match, left to right, without overlap
RECURSIVE FlagFindAll(_, _, _)
FlagFindAll(s, name, from) ==
    LET Rest(m) == <<SubSeq(s, m[1], m[2])>> \o FlagFindAll(s, name, m[2] + 1)
        First(starts) == IF starts = {} THEN <<>> ELSE Rest(FlagMatchAt(s, Min(starts), name))
    IN  First({i \in from..Len(s) : FlagMatchAt(s, i, name)[1] > 0})

\* re.sub(r'#.*$', '', v): a comment that runs to the end of the text is removed
ReSubComment(v) ==
    LET Cut(hs) == IF hs = {} THEN v
                   ELSE SubSeq(v, 1, Min(hs) - 1)
                        \o (IF Min(hs) < Len(v) /\ v[Len(v)] = "\n" THEN <<"\n">> ELSE <<>>)
    IN  Cut({h \in 1..Len(v) : v[h] = "#" /\ \A n \in (h + 1)..(Len(v) - 1) : v[n] # "\n"})

\* the cleaning of one match
CleanFlag(match) == Strip(ReSubComment(Strip(match, Whitespace)), {"\"", "'", "+", " ", "\t", "\n"})

\* the last keyword of the table that occurs in flag_value, or None: the loop of lines
\* 245-252 without its break, each hit overwriting the one before
LastKeyword(flag_value) ==
    LET Last(hits) == IF hits = {} THEN None ELSE Some(unsupported_gcc_keywords[Max(hits)])
    IN  Last({n \in 1..Len(unsupported_gcc_keywords) :
                Contains(flag_value, unsupported_gcc_keywords[n])})

\* the first keyword of the table that occurs in flag_value, or None
FirstKeyword(flag_value) ==
    LET First(hits) == IF hits = {} THEN None ELSE Some(unsupported_gcc_keywords[Min(hits)])
    IN  First({n \in 1..Len(unsupported_gcc_keywords) :
                 Contains(flag_value, unsupported_gcc_keywords[n])})

\* entries without the break of line 252: one per keyword a match holds (a
\* faulty variant of FlagEntries, for comparison)
RECURSIVE FlagEntriesPerKeyword(_, _)
FlagEntriesPerKeyword(flag_name, matches) ==
    IF matches = <<>> THEN <<>>
    ELSE LET Entries(flag_value, kws) ==
                 [n \in 1..Len(kws) |->
                     [flag |-> flag_name, value |-> flag_value, unsupported_keyword |-> kws[n]]]
             Value(flag_value) ==
                 Entries(flag_value,
                         SelectSeq(unsupported_gcc_keywords, LAMBDA kw : Contains(flag_value, kw)))
         IN  Value(CleanFlag(Head(matches))) \o FlagEntriesPerKeyword(flag_name, Tail(matches))

\* the entries one flag name contributes: one per match that holds a keyword
RECURSIVE FlagEntries(_, _)
FlagEntries(flag_name, matches) ==
    IF matches = <<>> THEN <<>>
    ELSE LET Entry(flag_value, kw) ==
                 IF flag_value # <<>> /\ kw.some
                 THEN <<[flag |-> flag_name, value |-> flag_value, unsupported_keyword |-> kw.val]>>
                 ELSE <<>>
             Value(flag_value) == Entry(flag_value, FirstKeyword(flag_value))
         IN  Value(CleanFlag(Head(matches))) \o FlagEntries(flag_name, Tail(matches))

FlagNames == <<<<"C","F","L","A","G","S">>, <<"A","F","L","A","G","S">>, <<"L","F","L","A","G","S">>>>

_analyze_compiler_flags_fixed(s) ==
    FlagEntries(<<"C","F","L","A","G","S">>, FlagFindAll(s, <<"C","F","L","A","G","S">>, 1))
    \o FlagEntries(<<"A","F","L","A","G","S">>, FlagFindAll(s, <<"A","F","L","A","G","S">>, 1))
    \o FlagEntries(<<"L","F","L","A","G","S">>, FlagFindAll(s, <<"L","F","L","A","G","S">>, 1))

----------------------------------------------------------------------------
(* RTConfigAnalyzer._extract_defines_and_includes_fixed *)

\* re.findall(r'-D([\w_][\w\d_]*)', content)
DefineMatches(s) ==
    {SubSeq(s, i + 2, RunEnd(s, i + 2, WordChars)) :
        i \in {j \in 1..(Len(s) - 2) : s[j] = "-" /\ s[j + 1] = "D" /\ IsWord(s[j + 2])}}

KeywordSet == Range(unsupported_gcc_keywords)

ExtractDefines(s) ==
    {m \in DefineMatches(s) : m # <<"g","c","c">> /\ (<<"-","D">> \o m) \notin KeywordSet}

\* re.findall(r'-I([^\s\'"]+)', content): a match swallows any -I inside it
\* the class [^\s]: a path runs on through quote characters (a faulty variant
\* of IncludeBodyChars, for comparison)
IncludeBodyCharsWithQuotes(s) == Range(s) \ Whitespace

IncludeBodyChars(s) == Range(s) \ (Whitespace \cup Quotes)
IncludeStartAt(s, j) ==
    j + 2 <= Len(s) /\ s[j] = "-" /\ s[j + 1] = "I" /\ s[j + 2] \in IncludeBodyChars(s)
IncludeMatches(s) ==
    {SubSeq(s, i + 2, RunEnd(s, i + 2, IncludeBodyChars(s))) :
        i \in {j \in 1..(Len(s) - 2) :
                 /\ IncludeStartAt(s, j)
                 /\ ~\E k \in 1..(j - 1) :
                        IncludeStartAt(s, k) /\ RunEnd(s, k + 2, IncludeBodyChars(s)) >= j}}

ExtractIncludes(s) ==
    {m \in IncludeMatches(s) : m # <<>> /\ Strip(m, Whitespace) # <<>> /\ ~StartsWith(m, <<"+">>)}

----------------------------------------------------------------------------
(* RTConfigGenerator *)

\* Path(p).name: the last component of the path
PathName(p) == SubSeq(p, RFindChar(p, "/", Len(p) + 1) + 1, Len(p))

\* datetime.now().strftime('%Y-%m-%d %H:%M:%S'): the clock is an input of the run
Timestamps == {<<"2","0","2","4","-","0","5","-","0","1"," ","1","2",":","0","0",":","0","0">>}

_add_header(analysis, timestamp) == <<
    <<"#","!","/","u","s","r","/","b","i","n","/","e","n","v"," ","p","y","t","h","o","n","3">>,
    <<"\"","\"","\"">>,
    <<"R","T","-","T","h","r","e","a","d"," ","B","S","P","u914d","u7f6e","u6587","u4ef6">>,
    <<"u4ece","u539f","u59cb","u914d","u7f6e","u81ea","u52a8","u8fc1","u79fb","u751f","u6210","uff0c","u9002","u914d","L","i","n","u","x","u73af","u5883">>,
    <<"u539f","u59cb","u6587","u4ef6",":"," ">> \o PathName(DictGet(analysis, "original_file", <<>>)),
    <<"u751f","u6210","u65f6","u95f4",":"," ">> \o timestamp,
    <<"\"","\"","\"">>,
    <<>> >>

_add_basic_config(analysis) ==
    LET arch == Format(DictGet(analysis, "arch", Some(<<"a","r","m">>)))
        cpu == Format(DictGet(analysis, "cpu", Some(<<"c","o","r","t","e","x","-","m","4">>)))
        build == Format(DictGet(analysis, "build", Some(<<"d","e","b","u","g">>)))
    IN << <<"#"," ","=","=","=","=","=","=","=","=","=","=","=","=","=","=","=","=","=","=","=","=","=","=","=","=","=","=","=","=","=","=","=","=","=","=","=","=","=","=","=","=","=","=","=","=","=","=","=","=","=","=","=","=">>,
          <<"#"," ","u57fa","u672c","u914d","u7f6e">>,
          <<"#"," ","=","=","=","=","=","=","=","=","=","=","=","=","=","=","=","=","=","=","=","=","=","=","=","=","=","=","=","=","=","=","=","=","=","=","=","=","=","=","=","=","=","=","=","=","=","=","=","=","=","=","=","=">>,
          <<"A","R","C","H"," ","="," ","'">> \o arch \o <<"'">>,
          <<"C","P","U"," ","="," ","'">> \o cpu \o <<"'">>,
          <<"C","R","O","S","S","_","T","O","O","L"," ","="," ","'","g","c","c","'">>,
          <<>>,
          <<"#"," ","B","S","P","u5e93","u7c7b","u578b">>,
          <<"B","S","P","_","L","I","B","R","A","R","Y","_","T","Y","P","E"," ","="," ","N","o","n","e">>,
          <<>>,
          <<"#"," ","u73af","u5883","u53d8","u91cf","u8986","u76d6">>,
          <<"i","f"," ","o","s",".","g","e","t","e","n","v","(","'","R","T","T","_","C","C","'",")",":">>,
          <<" "," "," "," ","C","R","O","S","S","_","T","O","O","L"," ","="," ","o","s",".","g","e","t","e","n","v","(","'","R","T","T","_","C","C","'",")">>,
          <<"i","f"," ","o","s",".","g","e","t","e","n","v","(","'","R","T","T","_","R","O","O","T","'",")",":">>,
          <<" "," "," "," ","R","T","T","_","R","O","O","T"," ","="," ","o","s",".","g","e","t","e","n","v","(","'","R","T","T","_","R","O","O","T","'",")">>,
          <<>>,
          <<"#"," ","u5de5","u5177","u94fe","u9009","u62e9"," ","-"," ","L","i","n","u","x","u4e0b","u53ea","u652f","u6301","G","C","C">>,
          <<"i","f"," ","C","R","O","S","S","_","T","O","O","L"," ","=","="," ","'","g","c","c","'",":">>,
          <<" "," "," "," ","P","L","A","T","F","O","R","M"," ","="," ","'","g","c","c","'">>,
          <<" "," "," "," ","E","X","E","C","_","P","A","T","H"," ","="," ","'","/","u","s","r","/","b","i","n","'"," "," ","#"," ","L","i","n","u","x","u9ed8","u8ba4","u8def","u5f84">>,
          <<"e","l","i","f"," ","C","R","O","S","S","_","T","O","O","L"," ","=","="," ","'","k","e","i","l","'",":">>,
          <<" "," "," "," ","p","r","i","n","t","(","\"","u8b66","u544a",":"," ","K","e","i","l"," ","M","D","K","u5728","L","i","n","u","x","u4e0b","u4e0d","u53ef","u7528","uff0c","u8bf7","u5207","u6362","u5230","G","C","C","\"",")">>,
          <<" "," "," "," ","P","L","A","T","F","O","R","M"," ","="," ","'","a","r","m","c","c","'">>,
          <<" "," "," "," ","E","X","E","C","_","P","A","T","H"," ","="," ","'","/","u","s","r","/","b","i","n","'">>,
          <<"e","l","i","f"," ","C","R","O","S","S","_","T","O","O","L"," ","=","="," ","'","i","a","r","'",":">>,
          <<" "," "," "," ","p","r","i","n","t","(","\"","u8b66","u544a",":"," ","I","A","R","u5728","L","i","n","u","x","u4e0b","u4e0d","u53ef","u7528","uff0c","u8bf7","u5207","u6362","u5230","G","C","C","\"",")">>,
          <<" "," "," "," ","P","L","A","T","F","O","R","M"," ","="," ","'","i","c","c","a","r","m","'">>,
          <<" "," "," "," ","E","X","E","C","_","P","A","T","H"," ","="," ","'","/","u","s","r","/","b","i","n","'">>,
          <<"e","l","s","e",":">>,
          <<" "," "," "," ","p","r","i","n","t","(","f","\"","u4e0d","u652f","u6301","u7684","u7f16","u8bd1","u5668",":"," ","{","C","R","O","S","S","_","T","O","O","L","}","\"",")">>,
          <<" "," "," "," ","e","x","i","t","(","1",")">>,
          <<>>,
          <<"i","f"," ","o","s",".","g","e","t","e","n","v","(","'","R","T","T","_","E","X","E","C","_","P","A","T","H","'",")",":">>,
          <<" "," "," "," ","E","X","E","C","_","P","A","T","H"," ","="," ","o","s",".","g","e","t","e","n","v","(","'","R","T","T","_","E","X","E","C","_","P","A","T","H","'",")">>,
          <<>>,
          <<"B","U","I","L","D"," ","="," ","'">> \o build \o <<"'">>,
          <<>> >>

_add_toolchain_config == <<
    <<"#"," ","=","=","=","=","=","=","=","=","=","=","=","=","=","=","=","=","=","=","=","=","=","=","=","=","=","=","=","=","=","=","=","=","=","=","=","=","=","=","=","=","=","=","=","=","=","=","=","=","=","=","=","=">>,
    <<"#"," ","G","C","C","u5de5","u5177","u94fe","u914d","u7f6e">>,
    <<"#"," ","=","=","=","=","=","=","=","=","=","=","=","=","=","=","=","=","=","=","=","=","=","=","=","=","=","=","=","=","=","=","=","=","=","=","=","=","=","=","=","=","=","=","=","=","=","=","=","=","=","=","=","=">>,
    <<"i","f"," ","P","L","A","T","F","O","R","M"," ","=","="," ","'","g","c","c","'",":">>,
    <<" "," "," "," ","#"," ","u5de5","u5177","u94fe","u547d","u4ee4">>,
    <<" "," "," "," ","P","R","E","F","I","X"," ","="," ","'","a","r","m","-","n","o","n","e","-","e","a","b","i","-","'">>,
    <<" "," "," "," ","C","C"," ","="," ","P","R","E","F","I","X"," ","+"," ","'","g","c","c","'">>,
    <<" "," "," "," ","A","S"," ","="," ","P","R","E","F","I","X"," ","+"," ","'","g","c","c","'">>,
    <<" "," "," "," ","A","R"," ","="," ","P","R","E","F","I","X"," ","+"," ","'","a","r","'">>,
    <<" "," "," "," ","C","X","X"," ","="," ","P","R","E","F","I","X"," ","+"," ","'","g","+","+","'">>,
    <<" "," "," "," ","L","I","N","K"," ","="," ","P","R","E","F","I","X"," ","+"," ","'","g","c","c","'">>,
    <<" "," "," "," ","T","A","R","G","E","T","_","E","X","T"," ","="," ","'","e","l","f","'">>,
    <<" "," "," "," ","S","I","Z","E"," ","="," ","P","R","E","F","I","X"," ","+"," ","'","s","i","z","e","'">>,
    <<" "," "," "," ","O","B","J","D","U","M","P"," ","="," ","P","R","E","F","I","X"," ","+"," ","'","o","b","j","d","u","m","p","'">>,
    <<" "," "," "," ","O","B","J","C","P","Y"," ","="," ","P","R","E","F","I","X"," ","+"," ","'","o","b","j","c","o","p","y","'">>,
    <<>> >>

\* the stubs of the other compilers with the armcc branch left to run on: a variant that
\* differs from _add_other_compiler_stubs in the missing exit(1) of the first stub
StubsArmccRunsOn == <<
    <<"e","l","i","f"," ","P","L","A","T","F","O","R","M"," ","=","="," ","'","a","r","m","c","c","'",":">>,
    <<" "," "," "," ","#"," ","A","R","M","C","C","u914d","u7f6e"," ","(","L","i","n","u","x","u4e0b","u4e0d","u53ef","u7528",")">>,
    <<" "," "," "," ","p","r","i","n","t","(","\"","u9519","u8bef",":"," ","A","R","M","C","C","u5728","L","i","n","u","x","u4e0b","u4e0d","u53ef","u7528","uff0c","u8bf7","u4f7f","u7528","G","C","C","\"",")">>,
    <<>>,
    <<"e","l","i","f"," ","P","L","A","T","F","O","R","M"," ","=","="," ","'","a","r","m","c","l","a","n","g","'",":">>,
    <<" "," "," "," ","#"," ","A","R","M","C","l","a","n","g","u914d","u7f6e"," ","(","L","i","n","u","x","u4e0b","u4e0d","u53ef","u7528",")">>,
    <<" "," "," "," ","p","r","i","n","t","(","\"","u9519","u8bef",":"," ","A","R","M","C","l","a","n","g","u5728","L","i","n","u","x","u4e0b","u4e0d","u53ef","u7528","uff0c","u8bf7","u4f7f","u7528","G","C","C","\"",")">>,
    <<" "," "," "," ","e","x","i","t","(","1",")">>,
    <<>>,
    <<"e","l","i","f"," ","P","L","A","T","F","O","R","M"," ","=","="," ","'","i","c","c","a","r","m","'",":">>,
    <<" "," "," "," ","#"," ","I","A","R","u914d","u7f6e"," ","(","L","i","n","u","x","u4e0b","u4e0d","u53ef","u7528",")">>,
    <<" "," "," "," ","p","r","i","n","t","(","\"","u9519","u8bef",":"," ","I","A","R","u5728","L","i","n","u","x","u4e0b","u4e0d","u53ef","u7528","uff0c","u8bf7","u4f7f","u7528","G","C","C","\"",")">>,
    <<" "," "," "," ","e","x","i","t","(","1",")">>,
    <<>> >>

_add_other_compiler_stubs == <<
    <<"e","l","i","f"," ","P","L","A","T","F","O","R","M"," ","=","="," ","'","a","r","m","c","c","'",":">>,
    <<" "," "," "," ","#"," ","A","R","M","C","C","u914d","u7f6e"," ","(","L","i","n","u","x","u4e0b","u4e0d","u53ef","u7528",")">>,
    <<" "," "," "," ","p","r","i","n","t","(","\"","u9519","u8bef",":"," ","A","R","M","C","C","u5728","L","i","n","u","x","u4e0b","u4e0d","u53ef","u7528","uff0c","u8bf7","u4f7f","u7528","G","C","C","\"",")">>,
    <<" "," "," "," ","e","x","i","t","(","1",")">>,
    <<>>,
    <<"e","l","i","f"," ","P","L","A","T","F","O","R","M"," ","=","="," ","'","a","r","m","c","l","a","n","g","'",":">>,
    <<" "," "," "," ","#"," ","A","R","M","C","l","a","n","g","u914d","u7f6e"," ","(","L","i","n","u","x","u4e0b","u4e0d","u53ef","u7528",")">>,
    <<" "," "," "," ","p","r","i","n","t","(","\"","u9519","u8bef",":"," ","A","R","M","C","l","a","n","g","u5728","L","i","n","u","x","u4e0b","u4e0d","u53ef","u7528","uff0c","u8bf7","u4f7f","u7528","G","C","C","\"",")">>,
    <<" "," "," "," ","e","x","i","t","(","1",")">>,
    <<>>,
    <<"e","l","i","f"," ","P","L","A","T","F","O","R","M"," ","=","="," ","'","i","c","c","a","r","m","'",":">>,
    <<" "," "," "," ","#"," ","I","A","R","u914d","u7f6e"," ","(","L","i","n","u","x","u4e0b","u4e0d","u53ef","u7528",")">>,
    <<" "," "," "," ","p","r","i","n","t","(","\"","u9519","u8bef",":"," ","I","A","R","u5728","L","i","n","u","x","u4e0b","u4e0d","u53ef","u7528","uff0c","u8bf7","u4f7f","u7528","G","C","C","\"",")">>,
    <<" "," "," "," ","e","x","i","t","(","1",")">>,
    <<>> >>

\* the loop filtered_flags = filtered_flags.replace(keyword, '') over the table, from keyword n on
RECURSIVE RemoveKeywordsFrom(_, _)
RemoveKeywordsFrom(v, n) ==
    IF v = <<>> \/ n > Len(unsupported_gcc_keywords) THEN v
    ELSE RemoveKeywordsFrom(StrRemove(v, unsupported_gcc_keywords[n]), n + 1)
RemoveKeywords(v) == RemoveKeywordsFrom(v, 1)

\* re.search of a literal prefix followed by \w+ : group(1), or <<>>
SearchPrefixWord(s, prefix) ==
    LET First(starts) ==
            IF starts = {} THEN <<>>
            ELSE SubSeq(s, Min(starts), RunEnd(s, Min(starts) + Len(prefix), WordChars))
    IN  First({i \in 1..Len(s) :
                 StartsAt(s, i, prefix) /\ i + Len(prefix) <= Len(s) /\ IsWord(s[i + Len(prefix)])})

\* the useful_patterns loop: ' ' + group(1) for each pattern that matches
UsefulFlags(filtered_flags) ==
    LET Add(group1) == IF group1 # <<>> THEN <<" ">> \o group1 ELSE <<>>
    IN  Add(IF Contains(filtered_flags, <<"-","f","s","t","a","c","k","-","u","s","a","g","e">>) THEN <<"-","f","s","t","a","c","k","-","u","s","a","g","e">> ELSE <<>>)
        \o Add(SearchPrefixWord(filtered_flags, <<"-","f","d","u","m","p","-","r","t","l","-">>))
        \o Add(SearchPrefixWord(filtered_flags, <<"-","s","t","d","=">>))

\* the value of the first unsupported_configs entry whose flag is CFLAGS, or ''
OriginalCflags(configs) ==
    LET First(hits) == IF hits = {} THEN <<>> ELSE configs[Min(hits)].value
    IN  First({n \in 1..Len(configs) : configs[n].flag = <<"C","F","L","A","G","S">>})

\* the two loops over sorted(defines) and sorted(includes): ' ' + opt + item for
\* each item; the test of line 504 is on includes only, and a define, matched
\* by [\w_][\w\d_]*, is never empty or blank
RECURSIVE ConcatFlags(_, _)
ConcatFlags(opt, items) ==
    IF items = <<>> THEN <<>>
    ELSE (IF Head(items) # <<>> /\ Strip(Head(items), Whitespace) # <<>>
          THEN <<" ">> \o opt \o Head(items) ELSE <<>>)
         \o ConcatFlags(opt, Tail(items))

_generate_safe_cflags_fixed(analysis) ==
    LET Useful(original_cflags) ==
            IF original_cflags # <<>> THEN UsefulFlags(RemoveKeywords(original_cflags)) ELSE <<>>
    IN  <<" ","-","D","g","c","c">>
        \o ConcatFlags(<<"-","D">>, Sorted(DictGet(analysis, "defines", {})))
        \o ConcatFlags(<<"-","I">>, Sorted(DictGet(analysis, "includes", {})))
        \o Useful(OriginalCflags(DictGet(analysis, "unsupported_configs", <<>>)))

\* device_flags of _add_gcc_config
DeviceFlags(analysis) ==
    LET Flags(cpu, fpu, float_abi) ==
            <<" ","-","m","c","p","u","=">> \o cpu \o <<" ","-","m","t","h","u","m","b">>
            \o (IF fpu # <<>> THEN <<" ","-","m","f","p","u","=">> \o fpu \o <<" ","-","m","f","l","o","a","t","-","a","b","i","=">> \o float_abi ELSE <<>>)
            \o <<" ","-","f","f","u","n","c","t","i","o","n","-","s","e","c","t","i","o","n","s"," ","-","f","d","a","t","a","-","s","e","c","t","i","o","n","s">>
        Fpu(cpu, fpu) == Flags(cpu, fpu, IF fpu # <<>> THEN <<"h","a","r","d">> ELSE <<"s","o","f","t">>)
        Cpu(cpu) == Fpu(cpu, _determine_fpu(cpu))
    IN  Cpu(Format(DictGet(analysis, "cpu", Some(<<"c","o","r","t","e","x","-","m","4">>))))

\* the values the gcc branch gives CFLAGS, AFLAGS and LFLAGS, DEVICE expanded
CflagsValue(analysis) == _generate_safe_cflags_fixed(analysis)
AflagsValue == <<" ","-","x"," ","a","s","s","e","m","b","l","e","r","-","w","i","t","h","-","c","p","p"," ","-","W","a",",","-","m","i","m","p","l","i","c","i","t","-","i","t","=","t","h","u","m","b"," ">>
LdScript(analysis) == Format(DictGet(analysis, "linker_script", Some(<<"b","o","a","r","d","/","l","i","n","k","e","r","_","s","c","r","i","p","t","s","/","l","i","n","k",".","l","d","s">>)))
LflagsValue(analysis) ==
    <<" ","-","W","l",",","-","-","g","c","-","s","e","c","t","i","o","n","s",",","-","M","a","p","=","r","t","-","t","h","r","e","a","d",".","m","a","p",",","-","c","r","e","f",",","-","u",",","R","e","s","e","t","_","H","a","n","d","l","e","r"," ","-","T"," ">> \o LdScript(analysis)

_add_gcc_config(analysis) ==
    << <<" "," "," "," ","#"," ","u7f16","u8bd1","u53c2","u6570">>,
       <<" "," "," "," ","D","E","V","I","C","E"," ","="," ","'">> \o DeviceFlags(analysis) \o <<"'">>,
       <<" "," "," "," ","C","F","L","A","G","S"," ","="," ","D","E","V","I","C","E"," ","+"," ","'">> \o CflagsValue(analysis) \o <<"'">>,
       <<" "," "," "," ","A","F","L","A","G","S"," ","="," ","'"," ","-","c","'"," ","+"," ","D","E","V","I","C","E"," ","+"," ","'">> \o AflagsValue \o <<"'">>,
       <<" "," "," "," ","L","F","L","A","G","S"," ","="," ","D","E","V","I","C","E"," ","+"," ","'">> \o LflagsValue(analysis) \o <<"'">>,
       <<" "," "," "," ","C","P","A","T","H"," ","="," ","'","'">>,
       <<" "," "," "," ","L","P","A","T","H"," ","="," ","'","'">>,
       <<>>,
       <<" "," "," "," ","i","f"," ","B","U","I","L","D"," ","=","="," ","'","d","e","b","u","g","'",":">>,
       <<" "," "," "," "," "," "," "," ","C","F","L","A","G","S"," ","+","="," ","'"," ","-","O","0"," ","-","g","d","w","a","r","f","-","2"," ","-","g","'">>,
       <<" "," "," "," "," "," "," "," ","A","F","L","A","G","S"," ","+","="," ","'"," ","-","g","d","w","a","r","f","-","2","'">>,
       <<" "," "," "," ","e","l","s","e",":">>,
       <<" "," "," "," "," "," "," "," ","C","F","L","A","G","S"," ","+","="," ","'"," ","-","O","2","'">>,
       <<>>,
       <<" "," "," "," ","C","X","X","F","L","A","G","S"," ","="," ","C","F","L","A","G","S">>,
       <<>>,
       <<" "," "," "," ","P","O","S","T","_","A","C","T","I","O","N"," ","="," ","O","B","J","C","P","Y"," ","+"," ","'"," ","-","O"," ","b","i","n","a","r","y"," ","$","T","A","R","G","E","T"," ","r","t","t","h","r","e","a","d",".","b","i","n","\\","n","'"," ","+"," ","S","I","Z","E"," ","+"," ","'"," ","$","T","A","R","G","E","T"," ","\\","n","'">>,
       <<>> >>
    \o _add_other_compiler_stubs
    \o << <<"e","l","s","e",":">>,
          <<" "," "," "," ","p","r","i","n","t","(","'","u4e0d","u652f","u6301","u7684","u5e73","u53f0",":"," ","'"," ","+"," ","P","L","A","T","F","O","R","M",")">>,
          <<" "," "," "," ","e","x","i","t","(","1",")">>,
          <<>> >>

\* a handler section that ends with a blank line after the handler (a faulty
\* variant of HandlerSection, for comparison)
HandlerSectionPadded(handler) ==
    IF handler # <<>>
    THEN << <<>>,
            <<"#"," ","=","=","=","=","=","=","=","=","=","=","=","=","=","=","=","=","=","=","=","=","=","=","=","=","=","=","=","=","=","=","=","=","=","=","=","=","=","=","=","=","=","=","=","=","=","=","=","=","=","=","=","=">>,
            <<"#"," ","u53d1","u5e03","u5904","u7406","u51fd","u6570"," ","(","u4ece","u539f","u59cb","u6587","u4ef6","u4fdd","u7559",")">>,
            <<"#"," ","=","=","=","=","=","=","=","=","=","=","=","=","=","=","=","=","=","=","=","=","=","=","=","=","=","=","=","=","=","=","=","=","=","=","=","=","=","=","=","=","=","=","=","=","=","=","=","=","=","=","=","=">>,
            handler,
            <<>> >>
    ELSE <<>>

\* the section generate() appends for a non-empty handler
HandlerSection(handler) ==
    IF handler # <<>>
    THEN << <<>>,
            <<"#"," ","=","=","=","=","=","=","=","=","=","=","=","=","=","=","=","=","=","=","=","=","=","=","=","=","=","=","=","=","=","=","=","=","=","=","=","=","=","=","=","=","=","=","=","=","=","=","=","=","=","=","=","=">>,
            <<"#"," ","u53d1","u5e03","u5904","u7406","u51fd","u6570"," ","(","u4ece","u539f","u59cb","u6587","u4ef6","u4fdd","u7559",")">>,
            <<"#"," ","=","=","=","=","=","=","=","=","=","=","=","=","=","=","=","=","=","=","=","=","=","=","=","=","=","=","=","=","=","=","=","=","=","=","=","=","=","=","=","=","=","=","=","=","=","=","=","=","=","=","=","=">>,
            handler >>
    ELSE <<>>

\* self.generated_lines at the end of generate()
GeneratedLines(handler, analysis, timestamp) ==
    _add_header(analysis, timestamp)
    \o <<<<"i","m","p","o","r","t"," ","o","s">>, <<>>>>
    \o _add_basic_config(analysis)
    \o _add_toolchain_config
    \o _add_gcc_config(analysis)
    \o HandlerSection(handler)

generate(handler, analysis, timestamp) == Join(GeneratedLines(handler, analysis, timestamp))

----------------------------------------------------------------------------
(* generate_migration_report, and the paths main() derives from its argument *)

windows_path_patterns == <<
    <<"C",":","\\","\\","U","s","e","r","s","\\","\\",".","*">>,
    <<"C",":","/",".","*">>,
    <<"D",":","\\","\\","P","r","o","g","r","e","m","\\","\\",".","*">>,
    <<"P","r","o","g","r","a","m"," ","F","i","l","e","s",".","*">> >>

\* any(pattern.lower() in path.lower() ...): the patterns are used as plain substrings
is_windows_path(path) ==
    /\ path # <<>>
    /\ \E n \in 1..Len(windows_path_patterns) :
          Contains(LowerStr(path), LowerStr(windows_path_patterns[n]))

\* '=' * 60 and '-' * 40
Rule(c, n) == [i \in 1..n |-> c]

\* for x in sorted(items): report_lines.append(f'  {opt}{x}')
ReportItems(opt, items) == [n \in 1..Len(items) |-> <<" "," ">> \o opt \o items[n]]

\* v[:n]
SliceTo(v, n) == SubSeq(v, 1, IF Len(v) < n THEN Len(v) ELSE n)

RECURSIVE ReportUnsupported(_)
ReportUnsupported(configs) ==
    IF configs = <<>> THEN <<>>
    ELSE << <<" "," ">> \o Head(configs).flag \o <<":">>,
            <<" "," "," "," ","u539f","u56e0",":"," ","u5305","u542b","G","C","C","u4e0d","u652f","u6301","u7684","u9009","u9879"," ","\"">> \o Head(configs).unsupported_keyword \o <<"\"">>,
            <<" "," "," "," ","u539f","u59cb","u503c",":"," ">> \o SliceTo(Head(configs).value, 100) \o <<".",".",".">>,
            <<>> >>
         \o ReportUnsupported(Tail(configs))

ReportLines(analysis, backup_path, report_path, output_path) ==
    << Rule("=", 60),
       <<"R","T","-","T","h","r","e","a","d"," ","B","S","P","u914d","u7f6e","u8fc1","u79fb","u62a5","u544a">>,
       Rule("=", 60),
       <<>>,
       <<"u1f4cb"," ","u57fa","u672c","u4fe1","u606f">>,
       Rule("-", 40),
       <<"u539f","u59cb","u6587","u4ef6",":"," ">> \o DictGet(analysis, "original_file", <<"N","/","A">>),
       <<"u67b6","u6784",":"," ">> \o Format(DictGet(analysis, "arch", Some(<<"N","/","A">>))),
       <<"C","P","U",":"," ">> \o Format(DictGet(analysis, "cpu", Some(<<"N","/","A">>))),
       <<"u539f","u59cb","u7f16","u8bd1","u5668",":"," ">> \o Format(DictGet(analysis, "cross_tool", Some(<<"N","/","A">>))),
       <<"u6784","u5efa","u7c7b","u578b",":"," ">> \o Format(DictGet(analysis, "build", Some(<<"N","/","A">>))),
       <<"u94fe","u63a5","u811a","u672c",":"," ">> \o Format(DictGet(analysis, "linker_script", Some(<<"u672a","u627e","u5230","uff0c","u4f7f","u7528","u9ed8","u8ba4">>))),
       <<"d","i","s","t","_","h","a","n","d","l","e","u51fd","u6570",":"," ">> \o (IF DictGet(analysis, "dist_handle_found", FALSE) THEN <<"u627e","u5230">> ELSE <<"u672a","u627e","u5230">>),
       <<>>,
       <<"u1f527"," ","u63d0","u53d6","u7684","u7f16","u8bd1","u53c2","u6570">>,
       Rule("-", 40) >>
    \o (IF DictGet(analysis, "defines", {}) # {}
        THEN <<<<"u2705"," ","u5b8f","u5b9a","u4e49"," ","(","-","D",")",":">>>> \o ReportItems(<<"-","D">>, Sorted(DictGet(analysis, "defines", {})))
        ELSE <<<<"u26a0","ufe0f"," ","u672a","u63d0","u53d6","u5230","u5b8f","u5b9a","u4e49">>>>)
    \o << <<>> >>
    \o (IF DictGet(analysis, "includes", {}) # {}
        THEN <<<<"u2705"," ","u5934","u6587","u4ef6","u8def","u5f84"," ","(","-","I",")",":">>>> \o ReportItems(<<"-","I">>, Sorted(DictGet(analysis, "includes", {})))
        ELSE <<<<"u26a0","ufe0f"," ","u672a","u63d0","u53d6","u5230","u5934","u6587","u4ef6","u8def","u5f84">>>>)
    \o << <<>>,
          <<"u1f527"," ","u4fee","u6539","u5185","u5bb9">>,
          Rule("-", 40) >>
    \o (IF Truthy(DictGet(analysis, "exec_path", Some(<<>>)))
           /\ is_windows_path(DictGet(analysis, "exec_path", Some(<<>>)).val)
        THEN << <<"u2713"," ","W","i","n","d","o","w","s","u8def","u5f84","u5df2","u66ff","u6362","u4e3a","L","i","n","u","x","u8def","u5f84">>,
                <<" "," ","u539f","u59cb",":"," ">> \o DictGet(analysis, "exec_path", Some(<<>>)).val,
                <<" "," ","u65b0",":"," ","/","u","s","r","/","b","i","n"," ","(","u53ef","u901a","u8fc7","R","T","T","_","E","X","E","C","_","P","A","T","H","u73af","u5883","u53d8","u91cf","u8986","u76d6",")">> >>
        ELSE << <<"u2713"," ","u8def","u5f84","u914d","u7f6e","u65e0","u9700","u4fee","u6539">> >>)
    \o << <<"u2713"," ","u7b80","u5316","u4e86","u7f16","u8bd1","u5668","u652f","u6301","uff0c","u4e3b","u8981","u4fdd","u7559","G","C","C">>,
          <<"u2713"," ","u81ea","u52a8","u63a2","u6d4b","u94fe","u63a5","u811a","u672c","u8def","u5f84">>,
          <<>> >>
    \o (IF DictGet(analysis, "unsupported_configs", <<>>) # <<>>
        THEN << <<"u26a0","ufe0f"," ","u4e0d","u652f","u6301","u7684","u7f16","u8bd1","u53c2","u6570","uff08","u5df2","u79fb","u9664","uff09">>, Rule("-", 40) >>
             \o ReportUnsupported(DictGet(analysis, "unsupported_configs", <<>>))
        ELSE << <<"u2705"," ","u6240","u6709","u7f16","u8bd1","u53c2","u6570","u90fd","u517c","u5bb9","G","C","C">>, <<>> >>)
    \o << <<"u1f4c1"," ","u751f","u6210","u7684","u6587","u4ef6">>,
          Rule("-", 40),
          <<"u8f93","u51fa","u6587","u4ef6",":"," ">> \o output_path,
          <<"u5907","u4efd","u6587","u4ef6",":"," ">> \o backup_path,
          <<"u62a5","u544a","u6587","u4ef6",":"," ">> \o report_path,
          <<>>,
          <<"u1f680"," ","u4f7f","u7528","u8bf4","u660e">>,
          Rule("-", 40),
          <<"1","."," ","u7f16","u8bd1","u6d4b","u8bd5",":"," ","s","c","o","n","s">>,
          <<"2","."," ","u5982","u679c","u7f16","u8bd1","u5931","u8d25","uff0c","u68c0","u67e5","u5de5","u5177","u94fe","u8def","u5f84",":">>,
          <<" "," "," ","e","x","p","o","r","t"," ","R","T","T","_","E","X","E","C","_","P","A","T","H","=","/","p","a","t","h","/","t","o","/","y","o","u","r","/","t","o","o","l","c","h","a","i","n">>,
          <<"3","."," ","u5982","u679c","u94fe","u63a5","u811a","u672c","u8def","u5f84","u4e0d","u6b63","u786e","uff0c","u8bf7","u624b","u52a8","u4fee","u6539","L","F","L","A","G","S","u4e2d","u7684","-","T","u53c2","u6570">>,
          <<"4","."," ","u6062","u590d","u539f","u59cb","u914d","u7f6e",":">>,
          <<" "," "," ","c","p"," ">> \o backup_path \o <<" ">> \o output_path,
          <<>>,
          Rule("=", 60) >>

generate_migration_report(analysis, backup_path, report_path, output_path) ==
    Join(ReportLines(analysis, backup_path, report_path, output_path))

\* datetime.now().strftime('%Y%m%d_%H%M%S')
FileStamps == {<<"2","0","2","4","0","5","0","1","_","1","2","0","0","0","0">>}

\* str(input_file.parent / "migration_logs")
LogsDir(p) ==
    IF RFindChar(p, "/", Len(p) + 1) = 0 THEN <<"m","i","g","r","a","t","i","o","n","_","l","o","g","s">>
    ELSE SubSeq(p, 1, RFindChar(p, "/", Len(p) + 1)) \o <<"m","i","g","r","a","t","i","o","n","_","l","o","g","s">>

\* input_file.stem: the name without its last suffix
PathStem(p) ==
    IF RFindChar(PathName(p), ".", Len(PathName(p)) + 1) <= 1 THEN PathName(p)
    ELSE SubSeq(PathName(p), 1, RFindChar(PathName(p), ".", Len(PathName(p)) + 1) - 1)

BackupPath(p, stamp) == LogsDir(p) \o <<"/">> \o PathStem(p) \o <<".">> \o stamp \o <<".","b","a","c","k","u","p",".","p","y">>
ReportPath(p, stamp) == LogsDir(p) \o <<"/">> \o PathStem(p) \o <<".">> \o stamp \o <<".","m","i","g","r","a","t","i","o","n","_","r","e","p","o","r","t",".","t","x","t">>

----------------------------------------------------------------------------
(* Inputs of the model *)

\* length bound of a source file in statements: analysis runs, and runs of main
MaxStmts == 2
MaxMainStmts == 1

HandlerBody == <<" "," "," "," ","i","m","p","o","r","t"," ","s","y","s","\n"," "," "," "," ","p","a","s","s","\n">>

\* the statements a source file is made of
Catalogue == {
    Assign(<<"A","R","C","H">>, StrLit("'", <<"a","r","m">>)),
    Assign(<<"C","P","U">>, StrLit("'", <<"c","o","r","t","e","x","-","m","7">>)),
    Assign(<<"C","R","O","S","S","_","T","O","O","L">>, StrLit("'", <<"k","e","i","l">>)),
    Assign(<<"P","L","A","T","F","O","R","M">>, StrLit("'", <<"a","r","m","c","c">>)),
    Assign(<<"E","X","E","C","_","P","A","T","H">>, StrLit("'", <<"C",":","/","K","e","i","l">>)),
    Assign(<<"B","U","I","L","D">>, StrLit("'", <<"r","e","l","e","a","s","e">>)),
    Assign(<<"C","F","L","A","G","S">>, StrLit("'", <<"-","-","s","t","r","i","c","t"," ","-","D","e","w","a","r","m","2"," ","-","D","U","S","E","_","H","A","L"," ","-","I","i","n","c">>)),
    Assign(<<"L","F","L","A","G","S">>, StrLit("'", <<"-","-","s","t","r","i","c","t"," ","-","T"," ","b","o","a","r","d","/","l","i","n","k",".","l","d","s">>)),
    Assign(<<"X">>, SetOfList(<<"{","[","1","]",":"," ","2","}">>)),
    Assign(<<"Y">>, NameExpr(<<"o","s",".","g","e","t","c","w","d","(",")">>)),
    FunctionDef(<<"d","i","s","t","_","h","a","n","d","l","e">>, HandlerBody),
    FunctionDef(<<"p","o","s","t">>, <<" "," "," "," ","p","a","s","s","\n">>),
    Broken(<<"M","C","P","U"," ","="," ","'","m","0">>) }

RECURSIVE SeqsOfLen(_, _)
SeqsOfLen(S, n) ==
    IF n = 0 THEN {<<>>}
    ELSE {<<x>> \o t : x \in S, t \in SeqsOfLen(S, n - 1)}
SeqsUpTo(S, n) == UNION {SeqsOfLen(S, k) : k \in 0..n}

Sources == SeqsUpTo(Catalogue, MaxStmts)
MainSources == SeqsUpTo(Catalogue, MaxMainStmts)

\* the answers of (bsp_dir / path).exists() for the conventional paths
ExistingSets == {{}, {<<"l","i","n","k",".","l","d","s">>, <<"l","i","n","k","e","r",".","l","d">>}}

\* the path the tool is given
FileNames == {<<"r","t","c","o","n","f","i","g",".","p","y">>, <<"b","s","p","/","r","t","c","o","n","f","i","g","-","I","A","R",".","p","y">>}

NoFiles == [input |-> None, readable |-> FALSE, logs_dir |-> FALSE,
            backup |-> None, report |-> None]

----------------------------------------------------------------------------
(* RTConfigAnalyzer.analyze, one action per method it calls *)

Called(name) == steps' = Append(steps, name)

\* lines 63-80: result is created, then _extract_dist_handle()
ExtractDistHandle ==
    /\ pc = "a_dist"
    /\ result' = InitialResult
    /\ dist_handle_code' = _extract_dist_handle(content)
    /\ Called("_extract_dist_handle")
    /\ pc' = "a_link"
    /\ UNCHANGED <<source, bsp_files, content, parsed_successfully, link_script_path,
                   all_defines, all_includes, raised>>
    /\ UNCHANGED <<outputVars, mainVars, classifierVars>>

\* line 83: _extract_link_script()
ExtractLinkScript ==
    /\ pc = "a_link"
    /\ link_script_path' = _extract_link_script(content, bsp_files)
    /\ Called("_extract_link_script")
    /\ pc' = "a_parse"
    /\ UNCHANGED <<source, bsp_files, content, parsed_successfully, dist_handle_code,
                   all_defines, all_includes, result, raised>>
    /\ UNCHANGED <<outputVars, mainVars, classifierVars>>

\* lines 86-89: ast.parse succeeds, _extract_from_ast runs; an exception other
\* than SyntaxError leaves analyze()
ExtractFromAst ==
    /\ pc = "a_parse"
    /\ ~ParseFails(source)
    /\ LET Outcome(r) ==
               IF r.exc = "none"
               THEN /\ result' = r.result
                    /\ parsed_successfully' = TRUE
                    /\ raised' = raised
                    /\ pc' = "a_flags"
               ELSE /\ result' = r.result
                    /\ parsed_successfully' = parsed_successfully
                    /\ raised' = r.exc
                    /\ pc' = "raised"
       IN  Outcome(_extract_from_ast(source, result))
    /\ Called("_extract_from_ast")
    /\ UNCHANGED <<source, bsp_files, content, dist_handle_code, link_script_path,
                   all_defines, all_includes>>
    /\ UNCHANGED <<outputVars, mainVars, classifierVars>>

\* lines 90-92: ast.parse raises SyntaxError, _extract_with_regex runs
ExtractWithRegex ==
    /\ pc = "a_parse"
    /\ ParseFails(source)
    /\ result' = _extract_with_regex(content, result)
    /\ Called("_extract_with_regex")
    /\ pc' = "a_flags"
    /\ UNCHANGED <<source, bsp_files, content, parsed_successfully, dist_handle_code,
                   link_script_path, all_defines, all_includes, raised>>
    /\ UNCHANGED <<outputVars, mainVars, classifierVars>>

\* line 95: _analyze_compiler_flags_fixed(result)
AnalyzeCompilerFlags ==
    /\ pc = "a_flags"
    /\ result' = [result EXCEPT !.unsupported_configs = _analyze_compiler_flags_fixed(content)]
    /\ Called("_analyze_compiler_flags_fixed")
    /\ pc' = "a_defines"
    /\ UNCHANGED <<source, bsp_files, content, parsed_successfully, dist_handle_code,
                   link_script_path, all_defines, all_includes, raised>>
    /\ UNCHANGED <<outputVars, mainVars, classifierVars>>

\* line 98: _extract_defines_and_includes_fixed()
ExtractDefinesAndIncludes ==
    /\ pc = "a_defines"
    /\ all_defines' = all_defines \cup ExtractDefines(content)
    /\ all_includes' = all_includes \cup ExtractIncludes(content)
    /\ Called("_extract_defines_and_includes_fixed")
    /\ pc' = "a_return"
    /\ UNCHANGED <<source, bsp_files, content, parsed_successfully, dist_handle_code,
                   link_script_path, result, raised>>
    /\ UNCHANGED <<outputVars, mainVars, classifierVars>>

\* lines 100-104: the analyzer's fields are copied into result, which is returned
AnalyzeReturn ==
    /\ pc = "a_return"
    /\ result' = [result EXCEPT !.dist_handle_found = (dist_handle_code # <<>>),
                                !.linker_script = link_script_path,
                                !.defines = all_defines,
                                !.includes = all_includes]
    /\ pc' = "analyzed"
    /\ UNCHANGED <<steps, source, bsp_files, content, parsed_successfully, dist_handle_code,
                   link_script_path, all_defines, all_includes, raised>>
    /\ UNCHANGED <<outputVars, mainVars, classifierVars>>

\* main, line 725: analysis['original_file'] = str(input_file)
SetOriginalFile ==
    /\ pc = "analyzed"
    /\ result' = Put(result, "original_file", input_file)
    /\ pc' = "generate"
    /\ UNCHANGED <<steps, source, bsp_files, content, parsed_successfully, dist_handle_code,
                   link_script_path, all_defines, all_includes, raised>>
    /\ UNCHANGED <<outputVars, mainVars, classifierVars>>

\* main, lines 729-730: RTConfigGenerator(analyzer, analysis).generate()
Generate ==
    /\ pc = "generate"
    /\ \E stamp \in Timestamps : new_content' = generate(dist_handle_code, result, stamp)
    /\ Called("generate")
    /\ pc' = "generated"
    /\ UNCHANGED <<source, bsp_files, re_defines, re_includes, cfg>>
    /\ UNCHANGED <<analyzerVars, mainVars, classifierVars>>

\* a second analyzer reads the generated text: its _extract_defines_and_includes_fixed
Reanalyze ==
    /\ pc = "generated"
    /\ re_defines' = ExtractDefines(new_content)
    /\ re_includes' = ExtractIncludes(new_content)
    /\ pc' = "reanalyzed"
    /\ UNCHANGED <<steps, source, bsp_files, new_content, cfg>>
    /\ UNCHANGED <<analyzerVars, mainVars, classifierVars>>

\* the analyzer as RTConfigAnalyzer.__init__ leaves it, holding text s
AnalyzerFields(s) ==
    /\ content = s
    /\ parsed_successfully = FALSE
    /\ dist_handle_code = <<>>
    /\ link_script_path = None
    /\ all_defines = {}
    /\ all_includes = {}
    /\ result = InitialResult
    /\ raised = "none"

\* the generated configuration has not been loaded
NotLoaded == [rtt_cc |-> None, CROSS_TOOL |-> None, PLATFORM |-> None,
              defined |-> {}, status |-> "idle"]

NoOutput ==
    /\ new_content = <<>>
    /\ re_defines = {}
    /\ re_includes = {}
    /\ cfg = NotLoaded

ClassifierIdle ==
    /\ cls_input = <<>>
    /\ cls_value = <<>>
    /\ cls_match = None
    /\ cls_op = "idle"

\* analysis and generation of every source file of the bound
InitAnalyze ==
    /\ source \in Sources
    /\ bsp_files \in ExistingSets
    /\ input_file \in FileNames
    /\ AnalyzerFields(RenderAll(source))
    /\ NoOutput
    /\ pc = "a_dist"
    /\ steps = <<>>
    /\ force = FALSE
    /\ file_stamp = <<>>
    /\ fs = NoFiles
    /\ original0 = None
    /\ exit_code = "running"
    /\ ClassifierIdle

NextAnalyze ==
    \/ ExtractDistHandle
    \/ ExtractLinkScript
    \/ ExtractFromAst
    \/ ExtractWithRegex
    \/ AnalyzeCompilerFlags
    \/ ExtractDefinesAndIncludes
    \/ AnalyzeReturn
    \/ SetOriginalFile
    \/ Generate
    \/ Reanalyze

SpecAnalyze == InitAnalyze /\ [][NextAnalyze]_vars

----------------------------------------------------------------------------
(* main() *)

Exit(status) ==
    /\ exit_code' = status
    /\ pc' = "exited"

\* lines 669-690: getopt; -h exits 0, a wrong number of arguments exits 1
ParseArgs ==
    /\ pc = "m_args"
    /\ \E argv \in {"path", "force", "help", "usage"} :
          CASE argv = "help" -> Exit("0") /\ force' = force
            [] argv = "usage" -> Exit("1") /\ force' = force
            [] OTHER -> /\ force' = (argv = "force")
                        /\ pc' = "m_exists"
                        /\ exit_code' = exit_code
    /\ UNCHANGED <<steps, source, bsp_files, input_file, file_stamp, fs, original0>>
    /\ UNCHANGED <<analyzerVars, outputVars, classifierVars>>

\* lines 692-695: input_file.exists()
CheckExists ==
    /\ pc = "m_exists"
    /\ IF fs.input.some
       THEN pc' = (IF force THEN "m_logs" ELSE "m_confirm") /\ exit_code' = exit_code
       ELSE Exit("1")
    /\ UNCHANGED <<steps, source, bsp_files, force, input_file, file_stamp, fs, original0>>
    /\ UNCHANGED <<analyzerVars, outputVars, classifierVars>>

\* lines 698-700: print("操作已取消"), sys.exit(0)
Cancel ==
    /\ exit_code' = "0"
    /\ pc' = "cancelled"

\* a main that creates the log directory before it asks (a faulty variant of
\* ConfirmOverwrite, for comparison)
ConfirmAfterLogsDir ==
    /\ pc = "m_confirm"
    /\ fs' = [fs EXCEPT !.logs_dir = TRUE]
    /\ \E response \in {"y", "n", "KeyboardInterrupt", "EOFError"} :
          CASE response = "y" -> pc' = "m_logs" /\ exit_code' = exit_code
            [] response = "EOFError" -> Exit("1")
            [] OTHER -> Cancel
    /\ UNCHANGED <<steps, source, bsp_files, force, input_file, file_stamp, original0>>
    /\ UNCHANGED <<analyzerVars, outputVars, classifierVars>>

\* lines 697-700 and confirm_overwrite: y / yes continue, anything else and
\* KeyboardInterrupt cancel the run with status 0, end of input (EOFError) is not caught
ConfirmOverwrite ==
    /\ pc = "m_confirm"
    /\ \E response \in {"y", "n", "KeyboardInterrupt", "EOFError"} :
          CASE response = "y" -> pc' = "m_logs" /\ exit_code' = exit_code
            [] response = "EOFError" -> Exit("1")
            [] OTHER -> Cancel
    /\ UNCHANGED <<steps, source, bsp_files, force, input_file, file_stamp, fs, original0>>
    /\ UNCHANGED <<analyzerVars, outputVars, classifierVars>>

\* lines 702-708: ensure_logs_dir (mkdir may fail), then generate_timestamp()
EnsureLogsDir ==
    /\ pc = "m_logs"
    /\ \E ok \in BOOLEAN :
          IF ok
          THEN /\ fs' = [fs EXCEPT !.logs_dir = TRUE]
               /\ \E stamp \in FileStamps : file_stamp' = stamp
               /\ pc' = "m_backup"
               /\ exit_code' = exit_code
          ELSE Exit("1") /\ UNCHANGED <<fs, file_stamp>>
    /\ UNCHANGED <<steps, source, bsp_files, force, input_file, original0>>
    /\ UNCHANGED <<analyzerVars, outputVars, classifierVars>>

\* a main that goes on to read the source without having copied it (a faulty
\* variant of BackupOriginal, for comparison)
BackupSkipped ==
    /\ pc = "m_backup"
    /\ pc' = "m_read"
    /\ UNCHANGED <<steps, source, bsp_files, force, input_file, file_stamp, fs, original0, exit_code>>
    /\ UNCHANGED <<analyzerVars, outputVars, classifierVars>>

\* line 719: shutil.copy2(input_file, backup_file); an unreadable source or a
\* failing copy raises, a failing copy may leave an empty backup file
BackupOriginal ==
    /\ pc = "m_backup"
    /\ IF ~fs.readable
       THEN Exit("1") /\ fs' = fs
       ELSE \E ok \in BOOLEAN :
               IF ok
               THEN /\ fs' = [fs EXCEPT !.backup = fs.input]
                    /\ pc' = "m_read"
                    /\ exit_code' = exit_code
               ELSE /\ \E left \in {None, Some(<<>>)} : fs' = [fs EXCEPT !.backup = left]
                    /\ Exit("1")
    /\ UNCHANGED <<steps, source, bsp_files, force, input_file, file_stamp, original0>>
    /\ UNCHANGED <<analyzerVars, outputVars, classifierVars>>

\* line 723 and RTConfigAnalyzer.__init__: the file is read
ReadSource ==
    /\ pc = "m_read"
    /\ content' = fs.input.val
    /\ pc' = "a_dist"
    /\ UNCHANGED <<steps, source, bsp_files, parsed_successfully, dist_handle_code,
                   link_script_path, all_defines, all_includes, result, raised>>
    /\ UNCHANGED <<outputVars, mainVars, classifierVars>>

\* an exception that leaves analyze() leaves main: traceback, status 1
Uncaught ==
    /\ pc = "raised"
    /\ Exit("1")
    /\ UNCHANGED <<steps, source, bsp_files, force, input_file, file_stamp, fs, original0>>
    /\ UNCHANGED <<analyzerVars, outputVars, classifierVars>>

\* line 734: open(output_file, 'w') truncates the input file, or fails
OpenOutput ==
    /\ pc = "generated"
    /\ \E ok \in BOOLEAN :
          IF ok
          THEN /\ fs' = [fs EXCEPT !.input = Some(<<>>)]
               /\ pc' = "m_write"
               /\ exit_code' = exit_code
          ELSE Exit("1") /\ fs' = fs
    /\ UNCHANGED <<steps, source, bsp_files, force, input_file, file_stamp, original0>>
    /\ UNCHANGED <<analyzerVars, outputVars, classifierVars>>

\* line 735: f.write(new_content); a failing write leaves a part of the text
WriteOutput ==
    /\ pc = "m_write"
    /\ \E ok \in BOOLEAN :
          IF ok
          THEN /\ fs' = [fs EXCEPT !.input = Some(new_content)]
               /\ pc' = "m_report"
               /\ exit_code' = exit_code
          ELSE /\ fs' = [fs EXCEPT !.input = Some(SubSeq(new_content, 1, Len(new_content) \div 2))]
               /\ Exit("1")
    /\ UNCHANGED <<steps, source, bsp_files, force, input_file, file_stamp, original0>>
    /\ UNCHANGED <<analyzerVars, outputVars, classifierVars>>

\* lines 739-744: the report is generated and written
WriteReport ==
    /\ pc = "m_report"
    /\ \E ok \in BOOLEAN :
          IF ok
          THEN /\ fs' = [fs EXCEPT !.report =
                            Some(generate_migration_report(result,
                                    BackupPath(input_file, file_stamp),
                                    ReportPath(input_file, file_stamp), input_file))]
               /\ pc' = "m_verify"
               /\ exit_code' = exit_code
          ELSE /\ fs' = [fs EXCEPT !.report = Some(<<>>)]
               /\ Exit("1")
    /\ UNCHANGED <<steps, source, bsp_files, force, input_file, file_stamp, original0>>
    /\ UNCHANGED <<analyzerVars, outputVars, classifierVars>>

\* lines 746-786: the output is read back and messages are printed; failures
\* are caught; main returns
Verify ==
    /\ pc = "m_verify"
    /\ Exit("0")
    /\ UNCHANGED <<steps, source, bsp_files, force, input_file, file_stamp, fs, original0>>
    /\ UNCHANGED <<analyzerVars, outputVars, classifierVars>>

\* the process starts: the file may be absent, or present and unreadable
Init ==
    /\ source \in MainSources
    /\ bsp_files \in ExistingSets
    /\ input_file \in FileNames
    /\ \E exists, readable \in BOOLEAN :
          /\ exists \/ (~readable /\ source = <<>>)
          /\ fs = [NoFiles EXCEPT !.input = IF exists THEN Some(RenderAll(source)) ELSE None,
                                  !.readable = readable]
    /\ original0 = fs.input
    /\ AnalyzerFields(<<>>)
    /\ NoOutput
    /\ pc = "m_args"
    /\ steps = <<>>
    /\ force = FALSE
    /\ file_stamp = <<>>
    /\ exit_code = "running"
    /\ ClassifierIdle

Next ==
    \/ ParseArgs
    \/ CheckExists
    \/ ConfirmOverwrite
    \/ EnsureLogsDir
    \/ BackupOriginal
    \/ ReadSource
    \/ ExtractDistHandle
    \/ ExtractLinkScript
    \/ ExtractFromAst
    \/ ExtractWithRegex
    \/ AnalyzeCompilerFlags
    \/ ExtractDefinesAndIncludes
    \/ AnalyzeReturn
    \/ Uncaught
    \/ SetOriginalFile
    \/ Generate
    \/ OpenOutput
    \/ WriteOutput
    \/ WriteReport
    \/ Verify

Spec == Init /\ [][Next]_vars

----------------------------------------------------------------------------
(* The flag classifier and the keyword filter, as operations on one flag value *)

MaxFragments == 3

ClsFragments == {<<"-","O","2">>, <<" ">>, <<"-","-","n","o","_">>, <<"c","s","e">>, <<"-","-","s","t","r","i","c","t">>, <<"-","D","U","S","E">>}

\* the flag values under test: up to MaxFragments fragments, written one after another
RECURSIVE Concat(_)
Concat(parts) == IF parts = <<>> THEN <<>> ELSE Head(parts) \o Concat(Tail(parts))
ClsValues == {Concat(fragments) : fragments \in SeqsUpTo(ClsFragments, MaxFragments)}

\* lines 243-252 on value v: the keyword recorded, None when there is no entry
Classify(v) == IF v # <<>> THEN FirstKeyword(v) ELSE None

\* a keyword of the table is appended to the value, which is classified
AppendKeyword ==
    /\ cls_op = "input"
    /\ \E n \in 1..Len(unsupported_gcc_keywords) :
          /\ cls_value' = cls_input \o unsupported_gcc_keywords[n]
          /\ cls_match' = Classify(cls_input \o unsupported_gcc_keywords[n])
    /\ cls_op' = "appended"
    /\ UNCHANGED <<pc, steps, source, bsp_files, cls_input>>
    /\ UNCHANGED <<analyzerVars, outputVars, mainVars>>

\* lines 514-517: the generator's filter is applied to the value, which is classified
StripKeywords ==
    /\ cls_op = "input"
    /\ cls_value' = RemoveKeywords(cls_input)
    /\ cls_match' = Classify(RemoveKeywords(cls_input))
    /\ cls_op' = "stripped"
    /\ UNCHANGED <<pc, steps, source, bsp_files, cls_input>>
    /\ UNCHANGED <<analyzerVars, outputVars, mainVars>>

InitClassifier ==
    /\ cls_input \in ClsValues
    /\ cls_value = cls_input
    /\ cls_match = Classify(cls_input)
    /\ cls_op = "input"
    /\ pc = "classifier"
    /\ steps = <<>>
    /\ source = <<>>
    /\ bsp_files = {}
    /\ input_file = <<>>
    /\ AnalyzerFields(<<>>)
    /\ NoOutput
    /\ force = FALSE
    /\ file_stamp = <<>>
    /\ fs = NoFiles
    /\ original0 = None
    /\ exit_code = "running"

NextClassifier ==
    \/ AppendKeyword
    \/ StripKeywords

SpecClassifier == InitClassifier /\ [][NextClassifier]_vars

----------------------------------------------------------------------------
(* Board configurations: sources that set the CPU and the compile flags *)

MaxBoardStmts == 2

BoardCatalogue == {
    Assign(<<"A","R","C","H">>, StrLit("'", <<"a","r","m">>)),
    Assign(<<"A","R","C","H">>, StrLit("\"", <<"a","r","m","'","s">>)),
    Assign(<<"C","P","U">>, StrLit("'", <<"c","o","r","t","e","x","-","m","4">>)),
    Assign(<<"C","P","U">>, StrLit("'", <<"c","o","r","t","e","x","-","m","7">>)),
    Assign(<<"C","P","U">>, StrLit("'", <<"c","o","r","t","e","x","-","m","3","3">>)),
    Assign(<<"C","P","U">>, StrLit("'", <<"c","o","r","t","e","x","-","m","0">>)),
    Assign(<<"C","F","L","A","G","S">>, StrLit("\"", <<"-","-","n","o","_","i","n","l","i","n","e"," ","-","D","g","c","c"," ","-","D","U","S","E","_","H","A","L"," ","-","I","i","n","c">>)),
    Assign(<<"C","F","L","A","G","S">>, StrLit("'", <<"-","s","t","d","=","c","9","9"," ","-","I","i","n","c"," ","-","I","b","s","p"," ","-","D","U","S","E","_","H","A","L"," ","-","D","A","P","P">>)),
    Assign(<<"C","F","L","A","G","S">>, StrLit("'", <<"-","-","s","t","r","i","c","t"," ","-","-","n","o","_","c","s","e"," ","-","f","s","t","a","c","k","-","u","s","a","g","e">>)),
    Broken(<<"M","C","P","U"," ","="," ","'","m","0">>) }

\* a Cortex-M4 board: architecture, CPU and armcc compile flags, no build type
M4Board == <<
    Assign(<<"A","R","C","H">>, StrLit("'", <<"a","r","m">>)),
    Assign(<<"C","P","U">>, StrLit("'", <<"c","o","r","t","e","x","-","m","4">>)),
    Assign(<<"C","F","L","A","G","S">>, StrLit("\"", <<"-","-","n","o","_","i","n","l","i","n","e"," ","-","D","g","c","c"," ","-","D","U","S","E","_","H","A","L"," ","-","I","i","n","c">>)) >>

BoardSources == SeqsUpTo(BoardCatalogue, MaxBoardStmts) \cup {M4Board}

----------------------------------------------------------------------------
(* The generated configuration, as Python loads it *)

\* the text of the first line that starts with head, after head; <<>> when none
LineAfter(text, head) ==
    LET Upto(i, nl) == SubSeq(text, i, IF nl = 0 THEN Len(text) ELSE nl - 1)
        From(i) == IF i = 0 THEN <<>> ELSE Upto(i + Len(head) + 1, Find(text, <<"\n">>, i + 1))
    IN  From(Find(text, <<"\n">> \o head, 1))

\* the rest of a line after an opening quote is the body of one single-quoted
\* literal and its closing quote (the values met here hold no backslash)
ClosesLiteral(rest) ==
    /\ rest # <<>>
    /\ rest[Len(rest)] = "'"
    /\ \A i \in 1..(Len(rest) - 1) : rest[i] # "'"

\* the lines generate() builds by interpolating a value between single quotes
InterpolatedHeads == {<<"A","R","C","H"," ","="," ","'">>, <<"C","P","U"," ","="," ","'">>, <<"B","U","I","L","D"," ","="," ","'">>, <<" "," "," "," ","D","E","V","I","C","E"," ","="," ","'">>,
                      <<" "," "," "," ","C","F","L","A","G","S"," ","="," ","D","E","V","I","C","E"," ","+"," ","'">>, <<" "," "," "," ","L","F","L","A","G","S"," ","="," ","D","E","V","I","C","E"," ","+"," ","'">>}

\* compile(text) succeeds, as far as the interpolated literals decide it
SyntaxValid(text) == \A head \in InterpolatedHeads : ClosesLiteral(LineAfter(text, head))

\* generated_lines between the header and the handler section
ConfigLines(analysis) ==
    _add_basic_config(analysis) \o _add_toolchain_config \o _add_gcc_config(analysis)

Indented(line) == line # <<>> /\ line[1] = " "

\* the last line of the block under the header at line i: blank and indented lines
BlockEnd(lines, i) ==
    MinOr({j \in (i + 1)..Len(lines) : lines[j] # <<>> /\ ~Indented(lines[j])}, Len(lines) + 1) - 1

\* the header at line i is  if / elif name == 'value':  or  else:
HeadHolds(line, name, value) ==
    \/ line = <<"e","l","s","e",":">>
    \/ line = <<"i","f"," ">> \o name \o <<" ","=","="," ","'">> \o value \o <<"'",":">>
    \/ line = <<"e","l","i","f"," ">> \o name \o <<" ","=","="," ","'">> \o value \o <<"'",":">>

\* the header of the branch an if / elif / else chain takes from line i on, 0 when none
RECURSIVE BranchTaken(_, _, _, _)
BranchTaken(lines, i, name, value) ==
    LET Continue(j) ==
            IF j <= Len(lines) /\ (StartsWith(lines[j], <<"e","l","i","f"," ">>) \/ lines[j] = <<"e","l","s","e",":">>)
            THEN BranchTaken(lines, j, name, value)
            ELSE 0
    IN  IF HeadHolds(lines[i], name, value) THEN i ELSE Continue(BlockEnd(lines, i) + 1)

\* the first line of the chain that tests name
ChainStart(lines, name) ==
    MinOr({i \in 1..Len(lines) : StartsWith(lines[i], <<"i","f"," ">> \o name \o <<" ","=","="," ","'">>)}, 0)

\* the outcome of running lines a..b of a block: exit(1) ends the run, an
\* assignment at block level defines its name
BlockRun(lines, a, b) ==
    LET Names(last) ==
            {SubSeq(lines[j], 5, RunEnd(lines[j], 5, WordChars)) :
                j \in {k \in a..last : /\ StartsWith(lines[k], <<" "," "," "," ">>)
                                       /\ Len(lines[k]) > 4
                                       /\ IsWord(lines[k][5])
                                       /\ StartsAt(lines[k], RunEnd(lines[k], 5, WordChars) + 1, <<" ","="," ">>)}}
        Outcome(stop) == [exits |-> stop # 0,
                          names |-> Names(IF stop = 0 THEN b ELSE stop - 1)]
    IN  Outcome(MinOr({j \in a..b : lines[j] = <<" "," "," "," ","e","x","i","t","(","1",")">>}, 0))

\* the literal a block assigns to name:  name = 'literal'  at block level
BlockLiteral(lines, a, b, name) ==
    LET Value(j) == IF j = 0 THEN None
                    ELSE Some(SubSeq(lines[j], Len(name) + 9,
                                     Find(lines[j], <<"'">>, Len(name) + 9) - 1))
    IN  Value(MaxOr({k \in a..b : StartsWith(lines[k], <<" "," "," "," ">> \o name \o <<" ","="," ","'">>)}, 0))

\* RTT_CC in the environment of the run: unset, empty, or a toolchain identifier
RttCcValues == {None, Some(<<>>), Some(<<"g","c","c">>), Some(<<"k","e","i","l">>), Some(<<"i","a","r">>),
                Some(<<"a","r","m","c","c">>), Some(<<"G","C","C">>)}

\* Python compiles the generated text: a SyntaxError ends the run with status 1
ConfigLoad ==
    /\ pc = "generated"
    /\ \E rtt_cc \in RttCcValues :
          IF SyntaxValid(new_content)
          THEN /\ cfg' = [cfg EXCEPT !.rtt_cc = rtt_cc, !.status = "running"]
               /\ pc' = "c_env"
          ELSE /\ cfg' = [cfg EXCEPT !.rtt_cc = rtt_cc, !.status = "1"]
               /\ pc' = "c_exit"
    /\ UNCHANGED <<steps, source, bsp_files, new_content, re_defines, re_includes>>
    /\ UNCHANGED <<analyzerVars, mainVars, classifierVars>>

\* CROSS_TOOL = 'gcc', then  if os.getenv('RTT_CC'): CROSS_TOOL = os.getenv('RTT_CC')
ConfigEnv ==
    /\ pc = "c_env"
    /\ LET Override(lit) == IF Truthy(cfg.rtt_cc) THEN cfg.rtt_cc ELSE Some(lit)
       IN  cfg' = [cfg EXCEPT !.CROSS_TOOL =
                       Override(SubSeq(LineAfter(new_content, <<"C","R","O","S","S","_","T","O","O","L"," ","="," ","'">>), 1,
                                       Len(LineAfter(new_content, <<"C","R","O","S","S","_","T","O","O","L"," ","="," ","'">>)) - 1))]
    /\ pc' = "c_select"
    /\ UNCHANGED <<steps, source, bsp_files, new_content, re_defines, re_includes>>
    /\ UNCHANGED <<analyzerVars, mainVars, classifierVars>>

\* one if / elif / else chain of the generated lines is run on the value of name
RunChain(lines, name, value) ==
    LET Ran(head, r) ==
            [cfg EXCEPT !.PLATFORM = IF r.exits THEN @
                                     ELSE BlockLiteral(lines, head + 1, BlockEnd(lines, head), <<"P","L","A","T","F","O","R","M">>),
                        !.defined = @ \cup r.names,
                        !.status = IF r.exits THEN "1" ELSE @]
        Take(head) == IF head = 0 THEN cfg
                      ELSE Ran(head, BlockRun(lines, head + 1, BlockEnd(lines, head)))
        Start(i) == IF i = 0 THEN cfg ELSE Take(BranchTaken(lines, i, name, value))
    IN  Start(ChainStart(lines, name))

\* the chain on CROSS_TOOL: it sets PLATFORM, or exits
ConfigSelect ==
    /\ pc = "c_select"
    /\ cfg' = RunChain(ConfigLines(result), <<"C","R","O","S","S","_","T","O","O","L">>, cfg.CROSS_TOOL.val)
    /\ pc' = IF cfg'.status = "1" THEN "c_exit" ELSE "c_platform"
    /\ UNCHANGED <<steps, source, bsp_files, new_content, re_defines, re_includes>>
    /\ UNCHANGED <<analyzerVars, mainVars, classifierVars>>

\* the chain on PLATFORM: the gcc branch defines the toolchain, every other exits
ConfigPlatform ==
    /\ pc = "c_platform"
    /\ LET Keep(c, platform) ==
               [c EXCEPT !.PLATFORM = platform, !.status = IF @ = "1" THEN "1" ELSE "0"]
       IN  cfg' = Keep(RunChain(ConfigLines(result), <<"P","L","A","T","F","O","R","M">>, cfg.PLATFORM.val), cfg.PLATFORM)
    /\ pc' = "c_exit"
    /\ UNCHANGED <<steps, source, bsp_files, new_content, re_defines, re_includes>>
    /\ UNCHANGED <<analyzerVars, mainVars, classifierVars>>

InitBoard ==
    /\ source \in BoardSources
    /\ bsp_files = {}
    /\ input_file = <<"r","t","c","o","n","f","i","g",".","p","y">>
    /\ AnalyzerFields(RenderAll(source))
    /\ NoOutput
    /\ pc = "a_dist"
    /\ steps = <<>>
    /\ force = FALSE
    /\ file_stamp = <<>>
    /\ fs = NoFiles
    /\ original0 = None
    /\ exit_code = "running"
    /\ ClassifierIdle

NextBoard ==
    \/ ExtractDistHandle
    \/ ExtractLinkScript
    \/ ExtractFromAst
    \/ ExtractWithRegex
    \/ AnalyzeCompilerFlags
    \/ ExtractDefinesAndIncludes
    \/ AnalyzeReturn
    \/ SetOriginalFile
    \/ Generate
    \/ ConfigLoad
    \/ ConfigEnv
    \/ ConfigSelect
    \/ ConfigPlatform

SpecBoard == InitBoard /\ [][NextBoard]_vars

----------------------------------------------------------------------------
(* Spelling variants: sources that name the linker script in each of the three
   ways, spell canonical names in lower case, and define a handler that holds
   a definition of its own *)

MaxVariantStmts == 2

NestedHandlerBody == <<" "," "," "," ","d","e","f"," ","i","n","n","e","r","(",")",":","\n"," "," "," "," "," "," "," "," ","p","a","s","s","\n"," "," "," "," ","i","n","n","e","r","(",")","\n">>

VariantCatalogue == {
    Assign(<<"L","F","L","A","G","S">>, StrLit("'", <<"-","T"," ","b","o","a","r","d","/","l","i","n","k",".","l","d","s">>)),
    Assign(<<"l","i","n","k","_","s","c","r","i","p","t">>, StrLit("'", <<"a",".","l","d">>)),
    Assign(<<"L","I","N","K","_","S","C","R","I","P","T">>, StrLit("\"", <<"b",".","l","d","s">>)),
    Assign(<<"C","R","O","S","S","_","T","O","O","L">>, StrLit("'", <<"g","c","c">>)),
    Assign(<<"c","r","o","s","s","_","t","o","o","l">>, StrLit("'", <<"k","e","i","l">>)),
    Assign(<<"a","r","c","h">>, StrLit("'", <<"a","r","m">>)),
    FunctionDef(<<"d","i","s","t","_","h","a","n","d","l","e">>, NestedHandlerBody),
    FunctionDef(<<"p","o","s","t">>, <<" "," "," "," ","p","a","s","s","\n">>),
    Broken(<<"M","C","P","U"," ","="," ","'","m","0">>) }

VariantSources == SeqsUpTo(VariantCatalogue, MaxVariantStmts)

InitVariants ==
    /\ source \in VariantSources
    /\ bsp_files \in ExistingSets
    /\ input_file = <<"r","t","c","o","n","f","i","g",".","p","y">>
    /\ AnalyzerFields(RenderAll(source))
    /\ NoOutput
    /\ pc = "a_dist"
    /\ steps = <<>>
    /\ force = FALSE
    /\ file_stamp = <<>>
    /\ fs = NoFiles
    /\ original0 = None
    /\ exit_code = "running"
    /\ ClassifierIdle

\* analyze(), from its first step to its return
NextVariants ==
    \/ ExtractDistHandle
    \/ ExtractLinkScript
    \/ ExtractFromAst
    \/ ExtractWithRegex
    \/ AnalyzeCompilerFlags
    \/ ExtractDefinesAndIncludes
    \/ AnalyzeReturn

SpecVariants == InitVariants /\ [][NextVariants]_vars

----------------------------------------------------------------------------
(* Properties *)

\* s.endswith(p)
EndsWith(s, p) == Len(p) <= Len(s) /\ StartsAt(s, Len(s) - Len(p) + 1, p)

\* the first line of text that holds marker, from the marker to the end of the line
LineWith(text, marker) ==
    LET Upto(i, nl) == SubSeq(text, i, IF nl = 0 THEN Len(text) ELSE nl - 1)
        From(i) == IF i = 0 THEN <<>> ELSE Upto(i, Find(text, <<"\n">>, i))
    IN  From(Find(text, marker, 1))

HoldsKeyword(v) == \E n \in 1..Len(unsupported_gcc_keywords) : Contains(v, unsupported_gcc_keywords[n])

Generated == pc \in {"generated", "reanalyzed"}
FieldsExtracted == pc \in {"a_flags", "a_defines", "a_return", "analyzed", "generate",
                           "generated", "reanalyzed"}
\* analyze() has returned its record
Analyzed == pc = "analyzed"

\* ---- C1 ----
\* the input file no longer holds what it held when the run started, or main
\* is past open(output_file, 'w')
Mutated == fs.input # original0 \/ pc \in {"m_write", "m_report", "m_verify"}

BeforeBackup == pc \in {"m_args", "m_exists", "m_confirm", "m_logs", "m_backup"}

\* C1: in a run of main, whenever the original file has been truncated or
\* overwritten the backup exists and holds the content the file had at the start
\* of the run, and once main is past the copy no step removes or alters the
\* backup, a failing write of the output included.
C1_BackupBeforeOverwrite ==
    /\ [](Mutated => (fs.backup.some /\ fs.backup = original0))
    /\ [][~BeforeBackup => fs'.backup = fs.backup]_vars

\* the write of the output failed part-way: the input file holds a part of the
\* generated text, the backup holds the original
C1_PartialWriteReached ==
    /\ pc = "exited"
    /\ exit_code = "1"
    /\ fs.input.some
    /\ fs.input # original0
    /\ fs.input.val # new_content
    /\ fs.backup = original0

\* ---- C2 ----
\* C2: whenever the analysis captured a non-empty handler text, the text
\* generate() returns ends with that exact text, preceded by a line break:
\* the handler is in the output in full, unmodified, and nothing follows it.
C2_HandlerIsLastSection ==
    (Generated /\ dist_handle_code # <<>>)
        => EndsWith(new_content, <<"\n">> \o dist_handle_code)

C2_HandlerGenerated ==
    /\ pc = "generated"
    /\ dist_handle_code # <<>>
    /\ Len(new_content) > Len(dist_handle_code)
    /\ EndsWith(new_content, dist_handle_code)

\* ---- C3 ----
\* C3: when the source text has no linker-script reference and none of the
\* conventional paths exists, the linker script is left unset and the LFLAGS
\* line of the generated text names board/linker_scripts/link.lds after -T.
C3_DefaultLinkerScript ==
    (Generated /\ LinkScriptFromText(content) = None /\ bsp_files \cap Range(common_paths) = {})
        => /\ result.linker_script = None
           /\ EndsWith(LineWith(new_content, <<" "," "," "," ","L","F","L","A","G","S"," ","="," ">>),
                       <<",","R","e","s","e","t","_","H","a","n","d","l","e","r"," ","-","T"," ","b","o","a","r","d","/","l","i","n","k","e","r","_","s","c","r","i","p","t","s","/","l","i","n","k",".","l","d","s","'">>)

\* ---- C4 ----
\* C4: for every field the analysis could not determine the generated text
\* holds the default: ARCH = 'arm' when the architecture is unset, CPU =
\* 'cortex-m4' when the CPU is unset, with -mcpu=cortex-m4 in the device
\* flags, and BUILD = 'debug' when the source assigns no build type.
C4_DefaultsSubstituted ==
    Generated =>
        /\ ~result.arch.some => Contains(new_content, <<"\n","A","R","C","H"," ","="," ","'","a","r","m","'","\n">>)
        /\ ~result.cpu.some =>
              /\ Contains(new_content, <<"\n","C","P","U"," ","="," ","'","c","o","r","t","e","x","-","m","4","'","\n">>)
              /\ Contains(LineWith(new_content, <<" "," "," "," ","D","E","V","I","C","E"," ","="," ">>), <<" ","-","m","c","p","u","=","c","o","r","t","e","x","-","m","4"," ">>)
        /\ (\A i \in 1..Len(source) : source[i].name # <<"B","U","I","L","D">>) =>
              Contains(new_content, <<"\n","B","U","I","L","D"," ","="," ","'","d","e","b","u","g","'","\n">>)

\* ---- C5 ----
\* C5: no failure inside the extraction leaves analyze(): for every source
\* text that was read, analyze() returns its record.
C5_AnalyzeNeverRaises == raised = "none" /\ pc # "raised"

\* ---- C6 ----
\* the canonical fields a source writes as NAME = 'literal' hold that literal
LiteralFieldsRecovered ==
    \A i \in 1..Len(source) :
        (source[i].k = "Assign" /\ source[i].rhs.k = "Str" /\ AstFieldOf(source[i].name) # "none")
            => result[AstFieldOf(source[i].name)] = Some(source[i].rhs.val)

\* C6: pattern-based field extraction runs exactly when the structural parse
\* fails: for a broken source parsed_successfully stays false and every
\* canonical field written as NAME = 'literal' is recovered; for a source that
\* parses, parsed_successfully is true and the pattern extraction is not run.
C6_PatternExtractionOnParseFailure ==
    FieldsExtracted =>
        IF ParseFails(source)
        THEN /\ ~parsed_successfully
             /\ "_extract_with_regex" \in Range(steps)
             /\ "_extract_from_ast" \notin Range(steps)
             /\ LiteralFieldsRecovered
        ELSE /\ parsed_successfully
             /\ "_extract_with_regex" \notin Range(steps)

\* ---- C7 ----
GccFlagLines == {<<" "," "," "," ","D","E","V","I","C","E"," ","="," ">>, <<" "," "," "," ","C","F","L","A","G","S"," ","="," ">>, <<" "," "," "," ","A","F","L","A","G","S"," ","="," ">>, <<" "," "," "," ","L","F","L","A","G","S"," ","="," ">>}

\* C7: the compile, assemble and link flag strings of the generated text hold
\* no keyword of the unsupported-keyword table as a substring, the forwarded
\* -D defines and -I include paths included.
C7_NoUnsupportedKeywordGenerated ==
    Generated => \A line \in GccFlagLines : ~HoldsKeyword(LineWith(new_content, line))

\* ---- C8 ----
CountKind(kind) ==
    Cardinality({n \in 1..Len(result.unsupported_configs) :
                    result.unsupported_configs[n].flag = kind})

\* NAME, spaces, then = or += or := at position i of s, letter case ignored
AssignOpAt(s, a) ==
    \/ a <= Len(s) /\ s[a] = "="
    \/ a + 1 <= Len(s) /\ s[a] \in {"+", ":"} /\ s[a + 1] = "="
AssignmentAt(s, i, name) ==
    StartsAtNoCase(s, i, name) /\ AssignOpAt(s, SkipSpace(s, i + Len(name)))
Assignments(s, name) == Cardinality({i \in 1..Len(s) : AssignmentAt(s, i, name)})

C9_ClassificationMonotonic ==
    /\ (cls_op = "appended" /\ ~HoldsKeyword(cls_input)) => cls_match.some
    /\ cls_op = "stripped" => (~HoldsKeyword(cls_value) /\ ~cls_match.some)

\* ---- C10 ----
\* C10: analysing the generated text again recovers the define set and the
\* include set of the analysis the text was generated from.
C10_DefinesIncludesFixedPoint ==
    pc = "reanalyzed" => (re_defines = result.defines /\ re_includes = result.includes)

\* ---- C11 ----
CanonicalFields == {"arch", "cpu", "cross_tool", "platform", "exec_path", "build"}

AllLiteral == \A i \in 1..Len(source) :
                 source[i].k = "Assign" => source[i].rhs.k \in {"Str", "Raw"}

\* C11: for every source that parses and whose assignments all literal-evaluate,
\* the six canonical fields set by _extract_from_ast equal those that
\* _extract_with_regex sets on the same text.
C11_StructuralEqualsPattern ==
    (pc = "a_flags" /\ ~ParseFails(source) /\ AllLiteral)
        => \A f \in CanonicalFields :
              result[f] = _extract_with_regex(content, InitialResult)[f]

\* ---- C12 ----
\* the CPU-to-FPU table of the specification
FpuTable(cpu) ==
    CASE cpu = <<"c","o","r","t","e","x","-","m","4">> -> <<"f","p","v","4","-","s","p","-","d","1","6">>
      [] cpu = <<"c","o","r","t","e","x","-","m","7">> -> <<"f","p","v","5","-","d","1","6">>
      [] cpu = <<"c","o","r","t","e","x","-","m","3","3">> -> <<"f","p","v","5","-","s","p","-","d","1","6">>
      [] OTHER -> <<>>

DeviceLine(flags) == <<"\n"," "," "," "," ","D","E","V","I","C","E"," ","="," ","'">> \o flags \o <<"'","\n">>

\* C12 as stated: a CPU of the table gets its -mfpu flag with the hard float
\* ABI; any other CPU gets no -mfpu flag and device flags that specify the
\* software float ABI.
C12_FpuTableSoftAbi ==
    pc = "generated" =>
        LET Holds(cpu, fpu) ==
                IF fpu # <<>>
                THEN Contains(new_content,
                              DeviceLine(<<" ","-","m","c","p","u","=">> \o cpu \o <<" ","-","m","t","h","u","m","b"," ","-","m","f","p","u","=">> \o fpu
                                         \o <<" ","-","m","f","l","o","a","t","-","a","b","i","=","h","a","r","d"," ","-","f","f","u","n","c","t","i","o","n","-","s","e","c","t","i","o","n","s"," ","-","f","d","a","t","a","-","s","e","c","t","i","o","n","s">>))
                ELSE /\ ~Contains(new_content, <<"-","m","f","p","u","=">>)
                     /\ Contains(new_content, <<"-","m","f","l","o","a","t","-","a","b","i","=","s","o","f","t">>)
            Of(cpu) == Holds(cpu, FpuTable(cpu))
        IN  Of(Format(result.cpu))

\* C12 (amended): a CPU of the table gets its -mfpu flag with -mfloat-abi=hard;
\* any other CPU gets neither an -mfpu flag nor an -mfloat-abi flag: the soft
\* ABI is left to the compiler's default and is not written to the device flags.
C12_FpuTableNoAbiFlag ==
    pc = "generated" =>
        LET Holds(cpu, fpu) ==
                IF fpu # <<>>
                THEN Contains(new_content,
                              DeviceLine(<<" ","-","m","c","p","u","=">> \o cpu \o <<" ","-","m","t","h","u","m","b"," ","-","m","f","p","u","=">> \o fpu
                                         \o <<" ","-","m","f","l","o","a","t","-","a","b","i","=","h","a","r","d"," ","-","f","f","u","n","c","t","i","o","n","-","s","e","c","t","i","o","n","s"," ","-","f","d","a","t","a","-","s","e","c","t","i","o","n","s">>))
                ELSE /\ Contains(new_content,
                                 DeviceLine(<<" ","-","m","c","p","u","=">> \o cpu
                                            \o <<" ","-","m","t","h","u","m","b"," ","-","f","f","u","n","c","t","i","o","n","-","s","e","c","t","i","o","n","s"," ","-","f","d","a","t","a","-","s","e","c","t","i","o","n","s">>))
                     /\ ~Contains(new_content, <<"-","m","f","p","u","=">>)
                     /\ ~Contains(new_content, <<"-","m","f","l","o","a","t","-","a","b","i">>)
            Of(cpu) == Holds(cpu, FpuTable(cpu))
        IN  Of(Format(result.cpu))

\* a CPU that is not in the table: no FPU flag and no float ABI flag generated
C12_CortexM0Generated ==
    /\ pc = "generated"
    /\ result.cpu = Some(<<"c","o","r","t","e","x","-","m","0">>)
    /\ ~Contains(new_content, <<"-","m","f","l","o","a","t","-","a","b","i">>)

\* ---- C13 ----
IsM4Board ==
    /\ Len(source) = 3
    /\ {source[i] : i \in 1..3} = {M4Board[i] : i \in 1..3}

\* C13: for a source declaring ARCH = 'arm', CPU = 'cortex-m4' and CFLAGS =
\* "--no_inline -Dgcc -DUSE_HAL -Iinc" with no build type, the analysis holds
\* exactly one unsupported_configs entry, with keyword --no_inline, and the
\* generated text holds the device flags of cortex-m4 (-mfpu=fpv4-sp-d16
\* -mfloat-abi=hard), the line CFLAGS = DEVICE + ' -Dgcc -DUSE_HAL -Iinc',
\* BUILD = 'debug', and CFLAGS += ' -O0 -gdwarf-2 -g' in the debug branch.
C13_CortexM4Scenario ==
    (pc = "generated" /\ IsM4Board) =>
        /\ Len(result.unsupported_configs) = 1
        /\ result.unsupported_configs[1].unsupported_keyword = <<"-","-","n","o","_","i","n","l","i","n","e">>
        /\ result.unsupported_configs[1].flag = <<"C","F","L","A","G","S">>
        /\ Contains(LineAfter(new_content, <<" "," "," "," ","D","E","V","I","C","E"," ","="," ","'">>), <<"-","m","f","p","u","=","f","p","v","4","-","s","p","-","d","1","6"," ","-","m","f","l","o","a","t","-","a","b","i","=","h","a","r","d">>)
        /\ LineAfter(new_content, <<" "," "," "," ","C","F","L","A","G","S"," ","="," ","D","E","V","I","C","E"," ","+"," ","'">>) = <<" ","-","D","g","c","c"," ","-","D","U","S","E","_","H","A","L"," ","-","I","i","n","c","'">>
        /\ Contains(new_content, <<"\n","B","U","I","L","D"," ","="," ","'","d","e","b","u","g","'","\n">>)
        /\ Contains(new_content, <<"\n"," "," "," "," ","i","f"," ","B","U","I","L","D"," ","=","="," ","'","d","e","b","u","g","'",":","\n"," "," "," "," "," "," "," "," ","C","F","L","A","G","S"," ","+","="," ","'"," ","-","O","0"," ","-","g","d","w","a","r","f","-","2"," ","-","g","'","\n">>)

C13_CortexM4Generated ==
    /\ pc = "generated"
    /\ IsM4Board
    /\ result.defines = {<<"U","S","E","_","H","A","L">>}
    /\ result.includes = {<<"i","n","c">>}

\* ---- C14 ----
\* C14: the text generate() returns is syntactically valid Python for every
\* analysis record, whatever the recovered values are.
C14_GeneratedTextValid == pc = "generated" => SyntaxValid(new_content)

\* ---- C15 ----
\* C15: when the source file does not exist or cannot be read, the run stops
\* before any extraction and writes nothing: no migration-log directory, no
\* backup, no report, and the input file is as it was.
C15_NothingWrittenWhenUnreadable ==
    (~original0.some \/ ~fs.readable) =>
        /\ steps = <<>>
        /\ ~fs.logs_dir
        /\ fs.backup = None
        /\ fs.report = None
        /\ fs.input = original0

\* ---- C16 ----
\* v.split(' ')
RECURSIVE Tokens(_)
Tokens(v) ==
    LET Cut(i) == IF i = 0 THEN <<v>>
                  ELSE <<SubSeq(v, 1, i - 1)>> \o Tokens(SubSeq(v, i + 1, Len(v)))
    IN  Cut(Find(v, <<" ">>, 1))

\* a flag of the safely-extractable kinds
IsGeneric(flag) ==
    \/ flag = <<"-","f","s","t","a","c","k","-","u","s","a","g","e">>
    \/ StartsWith(flag, <<"-","f","d","u","m","p","-","r","t","l","-">>) /\ Len(flag) > 11
    \/ StartsWith(flag, <<"-","s","t","d","=">>) /\ Len(flag) > 5

CflagsLine == LineAfter(new_content, <<" "," "," "," ","C","F","L","A","G","S"," ","="," ","D","E","V","I","C","E"," ","+"," ","'">>)

\* C16: every generic flag (-fstack-usage, -fdump-rtl-<name>, -std=<name>) of
\* a CFLAGS value of the source is in the CFLAGS line of the generated text.
C16_GenericFlagsCarried ==
    pc = "generated" =>
        \A i \in 1..Len(source) :
            (source[i].k = "Assign" /\ source[i].name = <<"C","F","L","A","G","S">>) =>
                \A flag \in Range(Tokens(source[i].rhs.val)) :
                    IsGeneric(flag) => Contains(CflagsLine, <<" ">> \o flag)

\* the names the gcc branch of the generated configuration defines
ToolchainNames ==
    {<<"P","R","E","F","I","X">>, <<"C","C">>, <<"A","S">>, <<"A","R">>, <<"C","X","X">>, <<"L","I","N","K">>, <<"T","A","R","G","E","T","_","E","X","T">>, <<"S","I","Z","E">>, <<"O","B","J","D","U","M","P">>, <<"O","B","J","C","P","Y">>,
     <<"D","E","V","I","C","E">>, <<"C","F","L","A","G","S">>, <<"A","F","L","A","G","S">>, <<"L","F","L","A","G","S">>}

StubPlatforms == {Some(<<"a","r","m","c","c">>), Some(<<"a","r","m","c","l","a","n","g">>), Some(<<"i","c","c","a","r","m">>)}

ConfigFinished == pc = "c_exit"

\* C17: in a run of the generated configuration, a selection other than gcc (by the literal
\* or by the RTT_CC override) ends with status 1 and defines none of the toolchain commands
\* or CFLAGS / AFLAGS / LFLAGS; the toolchain names are defined only after the gcc selection
\* reached the gcc platform; a run that reached a stub platform ends with status 1
C17_OnlyGccPopulated ==
    /\ (cfg.defined \cap ToolchainNames # {})
           => (cfg.CROSS_TOOL = Some(<<"g","c","c">>) /\ cfg.PLATFORM = Some(<<"g","c","c">>))
    /\ (ConfigFinished /\ cfg.CROSS_TOOL # Some(<<"g","c","c">>))
           => (cfg.status = "1" /\ cfg.defined \cap ToolchainNames = {})
    /\ (ConfigFinished /\ cfg.PLATFORM \in StubPlatforms) => cfg.status = "1"
    /\ (ConfigFinished /\ cfg.status = "0") => ToolchainNames \subseteq cfg.defined

\* a finished run that selected keil through the override and stopped in the armcc stub
C17_KeilStubExited ==
    /\ ConfigFinished
    /\ cfg.rtt_cc = Some(<<"k","e","i","l">>)
    /\ cfg.CROSS_TOOL = Some(<<"k","e","i","l">>)
    /\ cfg.PLATFORM = Some(<<"a","r","m","c","c">>)
    /\ cfg.status = "1"
    /\ cfg.defined \cap ToolchainNames = {}

\* what the Windows path patterns cover when they are read as the patterns they are written
\* as: a path holding C:\Users\, C:/, D:\Progrem\ or Program Files, in any case
WindowsPrefixes == <<<<"C",":","\\","U","s","e","r","s","\\">>, <<"C",":","/">>, <<"D",":","\\","P","r","o","g","r","e","m","\\">>, <<"P","r","o","g","r","a","m"," ","F","i","l","e","s">>>>

WindowsStyle(path) ==
    \E n \in 1..Len(WindowsPrefixes) : Contains(LowerStr(path), LowerStr(WindowsPrefixes[n]))

RecoveredExecPath(analysis) ==
    IF Truthy(DictGet(analysis, "exec_path", Some(<<>>)))
    THEN DictGet(analysis, "exec_path", Some(<<>>)).val
    ELSE <<>>

ReportWritten == pc = "m_verify" /\ Truthy(fs.report)

\* C18: the written report says the Windows path was replaced exactly when the exec path
\* recovered by the analysis is a Windows-style path, and says the path needs no change
\* exactly when it is not
C18_ReportTellsWindowsPath ==
    ReportWritten =>
        /\ Contains(fs.report.val, <<"u2713"," ","W","i","n","d","o","w","s","u8def","u5f84","u5df2","u66ff","u6362","u4e3a","L","i","n","u","x","u8def","u5f84">>)
               <=> WindowsStyle(RecoveredExecPath(result))
        /\ Contains(fs.report.val, <<"u2713"," ","u8def","u5f84","u914d","u7f6e","u65e0","u9700","u4fee","u6539">>)
               <=> ~WindowsStyle(RecoveredExecPath(result))

\* the flags of the generated CFLAGS literal, between DEVICE + ' and the closing quote
CflagsTokens(line) == Tokens(SubSeq(line, 2, Len(line) - 1))

\* the items of a rendering that start with an option, and the names after the option
WithOption(items, opt) ==
    LET Is(t) == StartsWith(t, opt)
    IN  SelectSeq(items, Is)

NamesAfter(items, n) == {SubSeq(items[i], n + 1, Len(items[i])) : i \in 1..Len(items)}

Ascending(items) == \A i \in 1..(Len(items) - 1) : StrLess(items[i], items[i + 1])

\* a rendering lists every name of a group exactly once, in ascending order
RendersOnce(items, n, group) ==
    /\ Ascending(items)
    /\ Len(items) = Cardinality(group)
    /\ NamesAfter(items, n) = group

\* C19: in the generated CFLAGS (after the fixed -Dgcc) and in the report, every recovered
\* define is rendered exactly once as -D<name> and every recovered include path exactly once
\* as -I<path>, each group in ascending order, whatever the order and the number of their
\* occurrences in the source
C19_DefinesIncludesSortedOnce ==
    pc = "generated" =>
        LET Cflags(toks) ==
                /\ Head(WithOption(toks, <<"-","D">>)) = <<"-","D","g","c","c">>
                /\ RendersOnce(Tail(WithOption(toks, <<"-","D">>)), 2, DictGet(result, "defines", {}))
                /\ RendersOnce(WithOption(toks, <<"-","I">>), 2, DictGet(result, "includes", {}))
            Report(lines) ==
                /\ RendersOnce(WithOption(lines, <<" "," ","-","D">>), 4, DictGet(result, "defines", {}))
                /\ RendersOnce(WithOption(lines, <<" "," ","-","I">>), 4, DictGet(result, "includes", {}))
        IN  /\ Cflags(CflagsTokens(CflagsLine))
            /\ Report(ReportLines(result, <<>>, <<>>, input_file))

\* two defines and two include paths, each group written in descending order in the source
\* and one name of each written twice
C19_ReversedAndRepeated ==
    /\ pc = "generated"
    /\ Len(source) = 2
    /\ source[1].k = "Assign" /\ source[1].rhs.val = <<"-","-","n","o","_","i","n","l","i","n","e"," ","-","D","g","c","c"," ","-","D","U","S","E","_","H","A","L"," ","-","I","i","n","c">>
    /\ source[2].k = "Assign" /\ source[2].rhs.val = <<"-","s","t","d","=","c","9","9"," ","-","I","i","n","c"," ","-","I","b","s","p"," ","-","D","U","S","E","_","H","A","L"," ","-","D","A","P","P">>
    /\ DictGet(result, "defines", {}) = {<<"A","P","P">>, <<"U","S","E","_","H","A","L">>}
    /\ DictGet(result, "includes", {}) = {<<"b","s","p">>, <<"i","n","c">>}
    /\ CflagsLine = <<" ","-","D","g","c","c"," ","-","D","A","P","P"," ","-","D","U","S","E","_","H","A","L"," ","-","I","b","s","p"," ","-","I","i","n","c","'">>

\* the matches of one flag kind whose cleaned value holds a keyword of the table
MatchesWithKeyword(matches) ==
    Cardinality({i \in 1..Len(matches) : HoldsKeyword(CleanFlag(matches[i]))})

\* kw is the keyword of the table that comes first in table order among those in value
FirstInTableOrder(value, kw) ==
    \E k \in 1..Len(unsupported_gcc_keywords) :
        /\ kw = unsupported_gcc_keywords[k]
        /\ Contains(value, kw)
        /\ \A m \in 1..(k - 1) : ~Contains(value, unsupported_gcc_keywords[m])

\* C20: after analyze(), every entry of unsupported_configs records the keyword that is
\* first in the order of the table among the table keywords its value holds, and each flag
\* kind has exactly one entry per matched value that holds a keyword: one entry also for a
\* value with several keywords, none for a value with no keyword
C20_FirstTableKeywordRecorded ==
    Analyzed =>
        /\ \A n \in 1..Len(result.unsupported_configs) :
              FirstInTableOrder(result.unsupported_configs[n].value,
                                result.unsupported_configs[n].unsupported_keyword)
        /\ \A kind \in Range(FlagNames) :
              CountKind(kind) = MatchesWithKeyword(FlagFindAll(content, kind, 1))

\* a value that holds --strict before -Dewarm: its one entry records -Dewarm, the earlier of
\* the two in the table
C20_LaterInTextRecorded ==
    /\ pc = "analyzed"
    /\ Len(result.unsupported_configs) = 1
    /\ result.unsupported_configs[1].value = <<"-","-","s","t","r","i","c","t"," ","-","D","e","w","a","r","m","2"," ","-","D","U","S","E","_","H","A","L"," ","-","I","i","n","c">>
    /\ result.unsupported_configs[1].unsupported_keyword = <<"-","D","e","w","a","r","m">>
    /\ Find(result.unsupported_configs[1].value, <<"-","-","s","t","r","i","c","t">>, 1)
           < Find(result.unsupported_configs[1].value, <<"-","D","e","w","a","r","m">>, 1)

----------------------------------------------------------------------------
(* Claims C21 to C26 *)

\* the statements of the source that assign name a string literal, in source order
AssignedAt(name) ==
    {i \in 1..Len(source) : source[i].k = "Assign" /\ source[i].name = name}

FirstAssigned(name) == source[Min(AssignedAt(name))].rhs.val
LastAssigned(name) == source[Max(AssignedAt(name))].rhs.val

\* the path a -T flag names in the LFLAGS value of the source
FlagPath(v) == IF StartsWith(v, <<"-","T"," ">>) THEN SubSeq(v, 4, Len(v)) ELSE <<>>

\* the conventional paths that exist next to the file, by their place in the list
ProbeHits == {n \in 1..Len(common_paths) : common_paths[n] \in bsp_files}

\* the linker script of the source by the order of strategies: -T flag, link_script
\* variable, LINK_SCRIPT variable, then the first conventional path on disk
LinkScriptByOrder ==
    IF AssignedAt(<<"L","F","L","A","G","S">>) # {} THEN Some(FlagPath(FirstAssigned(<<"L","F","L","A","G","S">>)))
    ELSE IF AssignedAt(<<"l","i","n","k","_","s","c","r","i","p","t">>) # {} THEN Some(FirstAssigned(<<"l","i","n","k","_","s","c","r","i","p","t">>))
    ELSE IF AssignedAt(<<"L","I","N","K","_","S","C","R","I","P","T">>) # {} THEN Some(FirstAssigned(<<"L","I","N","K","_","S","C","R","I","P","T">>))
    ELSE IF ProbeHits # {} THEN Some(common_paths[Min(ProbeHits)])
    ELSE None

LinkScriptExtracted == pc \notin {"a_dist", "a_link"}

\* C21: once _extract_link_script has run, and through every later step of analyze(), the
\* linker-script path is the one of the first strategy that hits, in the order -T flag,
\* link_script variable, LINK_SCRIPT variable, conventional paths in listed order on disk:
\* a path found in the text is not replaced by a path that exists on disk
C21_LinkScriptFirstHitWins ==
    LinkScriptExtracted =>
        /\ link_script_path = LinkScriptByOrder
        /\ pc = "analyzed" => DictGet(result, "linker_script", None) = LinkScriptByOrder

\* the link_script variable is written before the -T flag, both conventional paths exist,
\* and the path is the one of the flag
C21_FlagBeatsVariableAndDisk ==
    /\ pc = "analyzed"
    /\ Len(source) = 2
    /\ source[1].name = <<"l","i","n","k","_","s","c","r","i","p","t">>
    /\ source[2].name = <<"L","F","L","A","G","S">>
    /\ bsp_files # {}
    /\ link_script_path = Some(<<"b","o","a","r","d","/","l","i","n","k",".","l","d","s">>)

ParsedAndAnalyzed == pc = "analyzed" /\ parsed_successfully

\* C22: after the analysis of a source that parses, the value recorded for a name
\* assigned several times, in original_variables and in its canonical field, is the one of
\* the first assignment of the name in the source
C22_FirstDefinitionWins ==
    ParsedAndAnalyzed =>
        /\ AssignedAt(<<"C","P","U">>) # {} =>
              /\ result.original_variables[<<"C","P","U">>] = Some(FirstAssigned(<<"C","P","U">>))
              /\ result.cpu = Some(FirstAssigned(<<"C","P","U">>))
        /\ AssignedAt(<<"A","R","C","H">>) # {} =>
              /\ result.original_variables[<<"A","R","C","H">>] = Some(FirstAssigned(<<"A","R","C","H">>))
              /\ result.arch = Some(FirstAssigned(<<"A","R","C","H">>))

\* the six canonical names: upper-case spelling, lower-case spelling, field of the record
CanonicalNames == <<
    <<<<"A","R","C","H">>, <<"a","r","c","h">>, "arch">>, <<<<"C","P","U">>, <<"c","p","u">>, "cpu">>,
    <<<<"C","R","O","S","S","_","T","O","O","L">>, <<"c","r","o","s","s","_","t","o","o","l">>, "cross_tool">>, <<<<"P","L","A","T","F","O","R","M">>, <<"p","l","a","t","f","o","r","m">>, "platform">>,
    <<<<"E","X","E","C","_","P","A","T","H">>, <<"e","x","e","c","_","p","a","t","h">>, "exec_path">>, <<<<"B","U","I","L","D">>, <<"b","u","i","l","d">>, "build">> >>

\* the value the last assignment to either spelling gives
LastOfEither(upper, lower) ==
    source[Max(AssignedAt(upper) \cup AssignedAt(lower))].rhs.val

\* C23: after the analysis of a source that parses, an assignment to the upper-case or to
\* the lower-case spelling of a canonical name has set the field of that name
C23_BothSpellingsPopulate ==
    ParsedAndAnalyzed =>
        \A n \in 1..Len(CanonicalNames) :
            (AssignedAt(CanonicalNames[n][1]) \cup AssignedAt(CanonicalNames[n][2]) # {})
                => result[CanonicalNames[n][3]]
                       = Some(LastOfEither(CanonicalNames[n][1], CanonicalNames[n][2]))

\* the top-level definitions of the source, and the handler among them
DefinedAt == {i \in 1..Len(source) : source[i].k = "FunctionDef"}
HandlersAt == {i \in DefinedAt : source[i].name = <<"d","i","s","t","_","h","a","n","d","l","e">>}

\* the place in the text of statement i of the source (the end of the text for i past the last)
OffsetOf(i) == Len(RenderAll(SubSeq(source, 1, i - 1))) + 1

\* the text from the header of the handler at h up to the top-level definition that
\* follows it, or to the end of the file, without the line end that closes it
HandlerSpan(h) ==
    LET Upto(next) == Strip(SubSeq(content, OffsetOf(h), OffsetOf(next) - 1), {"\n"})
    IN  Upto(MinOr({j \in DefinedAt : j > h}, Len(source) + 1))

HandlerExtracted == pc # "a_dist"

\* C24: once _extract_dist_handle has run on a source that defines the handler, the
\* captured text is the text from the line of the first def dist_handle header up to, and
\* not including, the next top-level definition header, or to the end of the file: every
\* line of the handler body is in it
C24_HandlerCapturedToNextDefinition ==
    (HandlerExtracted /\ HandlersAt # {}) => dist_handle_code = HandlerSpan(Min(HandlersAt))

\* the steps of analyze() in their order, for a source that parses and for one that does not
PipelineOf(broken) == <<
    "_extract_dist_handle",
    "_extract_link_script",
    IF broken THEN "_extract_with_regex" ELSE "_extract_from_ast",
    "_analyze_compiler_flags_fixed",
    "_extract_defines_and_includes_fixed" >>

StepsSoFar == SubSeq(steps, 1, Min({Len(steps), 5}))

Analyzing == pc \in {"a_dist", "a_link", "a_parse", "a_flags", "a_defines", "a_return"}

\* C25: the steps analyze() has performed are at every moment the first steps of the order
\* handler, linker script, structural extraction (pattern extraction in its place when the
\* parse fails), flag classification, define/include extraction; every run that has left
\* analyze() has performed all five, define/include extraction last; and the record
\* returned holds what the last step left
C25_PipelineAlwaysCompletes ==
    /\ StepsSoFar = SubSeq(PipelineOf(ParseFails(source)), 1, Len(StepsSoFar))
    /\ ~Analyzing => StepsSoFar = PipelineOf(ParseFails(source))
    /\ pc = "analyzed" =>
          /\ result.defines = all_defines
          /\ result.includes = all_includes
          /\ result.linker_script = link_script_path

NothingWritten ==
    /\ fs.input = original0
    /\ ~fs.logs_dir
    /\ fs.backup = None
    /\ fs.report = None

\* C26: the confirmation is asked only in a run that is not forced; a forced run goes from
\* the test of existence past the confirmation; and the step in which the user declines or
\* interrupts the confirmation ends the run and changes no file: the input file is as it
\* was when the run started, and there is no log directory, no backup and no report
C26_DeclineChangesNothing ==
    [][ /\ pc = "m_confirm" => ~force
        /\ (pc = "m_exists" /\ force) => pc' # "m_confirm"
        /\ (pc = "m_confirm" /\ pc' # "m_logs") =>
              /\ pc' \in {"cancelled", "exited"}
              /\ exit_code' # "running"
              /\ fs' = fs
              /\ NothingWritten ]_vars

\* a run without --force on an existing file that the user declined
C26_Declined ==
    /\ pc = "cancelled"
    /\ exit_code = "0"
    /\ ~force
    /\ original0.some
    /\ NothingWritten
====
